---- MODULE Spec2Model ----
(***************************************************************************)
(* Verification model of the semantic-analysis front end of the mini       *)
(* compiler: the type relations of compile/ast.rs; the AST walker, the     *)
(* inliner, the top-level type-check driver, the checking of statements    *)
(* and of binary operators, purity, the container modifiers and the flow   *)
(* analyses (reachability, liveness, import usage) of                      *)
(* compile/typecheck.rs; the symbol tables of symtable.rs; the string      *)
(* table of stringtable.rs; the module tree builder of compile/mod.rs.     *)
(***************************************************************************)
EXTENDS Integers, Sequences, FiniteSets

VARIABLES
    type_tree,   \* TypeTree: nominal id -> Type (partial)
    lhs,         \* self of the type relation under test
    rhs,         \* rhs of the type relation under test
    resA,        \* result of Type::assignable(lhs, rhs)
    resC,        \* result of Type::castable(lhs, rhs)
    resV,        \* result of Type::covariant_castable(lhs, rhs)
    resM,        \* result of Type::first_mismatch(lhs, rhs)
    funcs,       \* the typed-function table handed to the inliner
    heuristic,   \* InliningHeuristic
    target,      \* index of the function the inliner runs over
    inlined,     \* code of funcs[target] after TypeCheckedFunc::inline
    inlinePc,    \* "ready" | "done"
    tcModules,   \* modules to type-check, each a sequence of function decls
    tcMod,       \* index of the module compile_from_folder is at
    tcIdx,       \* index of the function typecheck_top_level_decls is at
    tcChecked,   \* <<module, function>> pairs that typecheck_function ran on
    tcErrors,    \* errors reported by the run
    tcStatus,    \* "running" | "ok" | "failed"
    stmtFunc,    \* the function whose body typecheck_statement_sequence runs on
    stmtResult,  \* Ok or the reason of the CompileError, and the scopes left
    flowFunc,    \* the function handed to typecheck_function and flowcheck
    flowResult,  \* the result of typecheck_function and the warnings
    binExpr,     \* the binary expression typecheck_binary_op is called on
    binResult,   \* the typed expression, or the error
    symOps,      \* the pushes made on the symbol tables so far
    symTable,    \* the SymTable after them
    copyTable,   \* the CopyingSymTable after them
    liveFunc,    \* the function TypeCheckedFunc::flowcheck runs on
    liveResult,  \* the warnings of the liveness analysis
    impFunc,     \* the function whose imports are analysed
    impImports,  \* the imports of the module, then those left as unused
    strTable,    \* the StringTable of a module
    strCalls,    \* the calls of StringTable::get made so far, with their results
    walkRoot,    \* the tree recursive_apply is run over with an observing function
    treeGraph,   \* the imports of every module of the folder, by module path
    treePaths,   \* create_program_tree: paths, the module paths still to load
    treeSeen,    \* create_program_tree: seen_paths
    treePrograms, \* create_program_tree: the keys of programs, the map of modules
    treeParses,  \* the module paths handed to the parser, in order
    treePc,      \* "loop" in the while loop, "done" after the return
    modArgs,     \* the types of a, i and v in `a with {[i] = v}`, and the type tree
    modResult,   \* once checked: the outcome of typecheck_expr on the modifier
    pureFunc,    \* the function is_pure is asked about
    pureResult,  \* once asked: the answer of TypeCheckedFunc::is_pure
    walkResult   \* once run: the tree afterwards and the mut_state of the caller

typeVars == <<type_tree, lhs, rhs, resA, resC, resV, resM>>
inlineVars == <<funcs, heuristic, target, inlined, inlinePc>>
tcVars == <<tcModules, tcMod, tcIdx, tcChecked, tcErrors, tcStatus>>
stmtVars == <<stmtFunc, stmtResult>>
flowVars == <<flowFunc, flowResult>>
binVars == <<binExpr, binResult>>
symVars == <<symOps, symTable, copyTable>>
liveVars == <<liveFunc, liveResult>>
impVars == <<impFunc, impImports>>
strVars == <<strTable, strCalls>>
walkVars == <<walkRoot, walkResult>>
pureVars == <<pureFunc, pureResult>>
modVars == <<modArgs, modResult>>
treeVars == <<treeGraph, treePaths, treeSeen, treePrograms, treeParses, treePc>>
lastVars == <<strVars, walkVars, pureVars, modVars, treeVars>>
laterVars == <<stmtVars, flowVars, binVars, symVars, liveVars, impVars, lastVars>>
earlierVars == <<typeVars, inlineVars, tcVars>>
vars == <<typeVars, inlineVars, tcVars, laterVars>>

(***************************************************************************)
(* Bounds.                                                                 *)
(***************************************************************************)
NumNominals == 2      \* nominal names the type tree may define: 1..NumNominals
MaxFixedSize == 2     \* sizes of FixedArray types: 1..MaxFixedSize

(***************************************************************************)
(* Types.  A Type is a record [k, a, x]: k the variant, a the sequence of  *)
(* child types, x the sequence of integer payloads (FixedArray size, field *)
(* names of a Struct, id of a Nominal / Variable / Generic, and the purity *)
(* pair <<view, write>> of a Func as 0/1).  Func keeps its return type     *)
(* first, as Type::child_nodes enumerates it.  The closure and public      *)
(* flags of FuncProperties take no part in equality or in the relations.   *)
(***************************************************************************)
T(k, a, x) == [k |-> k, a |-> a, x |-> x]

Void == T("Void", <<>>, <<>>)
Uint == T("Uint", <<>>, <<>>)
IntT == T("Int", <<>>, <<>>)   \* Type::Int (Int is the set of integers here)
Bool == T("Bool", <<>>, <<>>)
Bytes32 == T("Bytes32", <<>>, <<>>)
EthAddress == T("EthAddress", <<>>, <<>>)
Buffer == T("Buffer", <<>>, <<>>)
Any == T("Any", <<>>, <<>>)
Every == T("Every", <<>>, <<>>)
Tuple(ts) == T("Tuple", ts, <<>>)
Array(t) == T("Array", <<t>>, <<>>)
FixedArray(t, s) == T("FixedArray", <<t>>, <<s>>)
Struct(names, ts) == T("Struct", ts, names)
Variable(id) == T("Variable", <<>>, <<id>>)
Nominal(id) == T("Nominal", <<>>, <<id>>)
Generic(id, args) == T("Generic", args, <<id>>)
Func(view, write, args, ret) == T("Func", <<ret>> \o args, <<view, write>>)
Map(key, val) == T("Map", <<key, val>>, <<>>)
Option(t) == T("Option", <<t>>, <<>>)
Union(ts) == T("Union", ts, <<>>)

FuncRet(t) == t.a[1]
FuncArgs(t) == Tail(t.a)
\* FuncProperties::purity
purity(t) == <<t.x[1] = 1, t.x[2] = 1>>

ScalarKinds == {"Uint", "Int", "Bool", "Bytes32", "EthAddress", "Buffer"}

(***************************************************************************)
(* Outcomes.  A relation returns "true" or "false", panics ("panic", the   *)
(* unimplemented!() of assignable) or never returns ("diverge", the while  *)
(* loop of get_representation on a chain of nominals that closes on        *)
(* itself).  && and Iterator::all evaluate left to right and stop at the   *)
(* first operand that is not true.                                         *)
(***************************************************************************)
B(b) == IF b THEN "true" ELSE "false"
And(a, b) == IF a = "true" THEN b ELSE a

\* Type::get_representation: follows Nominal references through the type
\* tree.  The loop has no other state than base_type, so reaching a nominal
\* a second time means it never exits.
RECURSIVE RepFrom(_, _, _)
RepFrom(t, tree, visited) ==
    IF t.k # "Nominal" THEN [st |-> "ok", t |-> t]
    ELSE IF t.x[1] \notin DOMAIN tree THEN [st |-> "err", t |-> t]
    ELSE IF t.x[1] \in visited THEN [st |-> "diverge", t |-> t]
    ELSE RepFrom(tree[t.x[1]], tree, visited \cup {t.x[1]})

get_representation(t, tree) == RepFrom(t, tree, {})

\* `if let Ok(Type::K(..)) = rhs.get_representation(type_tree)`
RepIs(t, tree, kind) ==
    LET rep == get_representation(t, tree) IN
    IF rep.st = "diverge" THEN "diverge"
    ELSE B(rep.st = "ok" /\ rep.t.k = kind)

RepOf(t, tree) == get_representation(t, tree).t

\* `if let (Ok(left), Ok(right)) = (self.get_representation(..), rhs.get_representation(..))`
BothRep(l, r, tree) ==
    LET left == get_representation(l, tree)
        right == get_representation(r, tree) IN
    IF left.st = "diverge" \/ right.st = "diverge" THEN "diverge"
    ELSE B(left.st = "ok" /\ right.st = "ok")

(***************************************************************************)
(* Type::assignable and its vector helpers.                                *)
(***************************************************************************)
RECURSIVE assignable(_, _, _, _)
RECURSIVE AllAssignable(_, _, _, _, _)
RECURSIVE AllFieldsAssignable(_, _, _, _, _)
RECURSIVE AllMutuallyAssignable(_, _, _, _, _)

\* the closure of `.iter().zip(tvec2).all(|(t1, t2)| t1.assignable(t2, ..))`
AllAssignable(v1, v2, tree, seen, i) ==
    IF i > Len(v1) THEN "true"
    ELSE And(assignable(v1[i], v2[i], tree, seen),
             AllAssignable(v1, v2, tree, seen, i + 1))

type_vectors_assignable(tvec1, tvec2, tree, seen) ==
    And(B(Len(tvec1) = Len(tvec2)), AllAssignable(tvec1, tvec2, tree, seen, 1))

arg_vectors_assignable(tvec1, tvec2, tree, seen) ==
    And(B(Len(tvec1) = Len(tvec2)), AllAssignable(tvec1, tvec2, tree, seen, 1))

\* fields are the Struct types themselves: a the field types, x the names
AllFieldsAssignable(f1, f2, tree, seen, i) ==
    IF i > Len(f1.a) THEN "true"
    ELSE And(And(assignable(f1.a[i], f2.a[i], tree, seen), B(f1.x[i] = f2.x[i])),
             AllFieldsAssignable(f1, f2, tree, seen, i + 1))

field_vectors_assignable(f1, f2, tree, seen) ==
    And(B(Len(f1.a) = Len(f2.a)), AllFieldsAssignable(f1, f2, tree, seen, 1))

\* the closure of the Generic arm: each argument pair assignable both ways
AllMutuallyAssignable(args, args2, tree, seen, i) ==
    IF i > Len(args) THEN "true"
    ELSE And(And(assignable(args[i], args2[i], tree, seen),
                 assignable(args2[i], args[i], tree, seen)),
             AllMutuallyAssignable(args, args2, tree, seen, i + 1))

GenericArgsEqual(l, r, tree, seen) ==
    IF r.k = "Generic"
    THEN And(B(l.x[1] = r.x[1]),
         And(B(Len(l.a) = Len(r.a)),
             AllMutuallyAssignable(l.a, r.a, tree, seen, 1)))
    ELSE "false"

\* AssignablePurity with the two sides exchanged
AssignablePurityReversed(l, r) ==
    LET view1 == purity(l)[1]
        write1 == purity(l)[2]
        view2 == purity(r)[1]
        write2 == purity(r)[2] IN
    (view2 \/ ~view1) /\ (write2 \/ ~write1)

\* the purity test of the Func arm of assignable
AssignablePurity(l, r) ==
    LET view1 == purity(l)[1]
        write1 == purity(l)[2]
        view2 == purity(r)[1]
        write2 == purity(r)[2] IN
    (view1 \/ ~view2) /\ (write1 \/ ~write2)

assignable(l, r, tree, seen) ==
    IF r = Every THEN "true"
    ELSE CASE l.k = "Any" -> B(r # Void)
      [] l.k \in ScalarKinds \cup {"Void", "Every"} -> B(l = r)
      [] l.k = "Variable" -> "panic"
      [] l.k = "Tuple" ->
            LET m == RepIs(r, tree, "Tuple") IN
            IF m = "true"
            THEN type_vectors_assignable(l.a, RepOf(r, tree).a, tree, seen)
            ELSE m
      [] l.k = "Array" ->
            LET m == RepIs(r, tree, "Array") IN
            IF m = "true"
            THEN assignable(l.a[1], RepOf(r, tree).a[1], tree, seen)
            ELSE m
      [] l.k = "FixedArray" ->
            LET m == RepIs(r, tree, "FixedArray") IN
            IF m = "true"
            THEN And(B(l.x[1] = RepOf(r, tree).x[1]),
                     assignable(l.a[1], RepOf(r, tree).a[1], tree, seen))
            ELSE m
      [] l.k = "Struct" ->
            LET m == RepIs(r, tree, "Struct") IN
            IF m = "true"
            THEN field_vectors_assignable(l, RepOf(r, tree), tree, seen)
            ELSE m
      [] l.k = "Nominal" ->
            LET m == BothRep(l, r, tree)
                left == RepOf(l, tree)
                right == RepOf(r, tree) IN
            IF m = "true"
            THEN IF <<left, right>> \notin seen
                 THEN assignable(left, right, tree, seen \cup {<<left, right>>})
                 ELSE "true"
            ELSE m
      [] l.k = "Generic" -> GenericArgsEqual(l, r, tree, seen)
      [] l.k = "Func" ->
            IF r.k = "Func"
            THEN And(B(AssignablePurity(l, r)),
                 And(arg_vectors_assignable(FuncArgs(r), FuncArgs(l), tree, seen),
                     assignable(FuncRet(l), FuncRet(r), tree, seen)))
            ELSE "false"
      [] l.k = "Map" ->
            IF r.k = "Map"
            THEN LET val2 == get_representation(r.a[2], tree) IN
                 IF val2.st = "diverge" THEN "diverge"
                 ELSE IF val2.st = "ok"
                 THEN And(assignable(l.a[1], r.a[1], tree, seen),
                          assignable(l.a[2], val2.t, tree, seen))
                 ELSE "false"
            ELSE "false"
      [] l.k = "Option" ->
            LET m == RepIs(r, tree, "Option") IN
            IF m = "true"
            THEN assignable(l.a[1], RepOf(r, tree).a[1], tree, seen)
            ELSE m
      [] l.k = "Union" ->
            LET m == RepIs(r, tree, "Union") IN
            IF m = "true"
            THEN type_vectors_assignable(l.a, RepOf(r, tree).a, tree, seen)
            ELSE m

(***************************************************************************)
(* Type::castable and its vector helpers.                                      *)
(***************************************************************************)
RECURSIVE castable(_, _, _, _)
RECURSIVE AllCastable(_, _, _, _, _)

AllCastable(v1, v2, tree, seen, i) ==
    IF i > Len(v1) THEN "true"
    ELSE And(castable(v1[i], v2[i], tree, seen),
             AllCastable(v1, v2, tree, seen, i + 1))

type_vectors_castable(tvec1, tvec2, tree, seen) ==
    And(B(Len(tvec1) = Len(tvec2)), AllCastable(tvec1, tvec2, tree, seen, 1))

\* field names take no part
field_vectors_castable(f1, f2, tree, seen) ==
    And(B(Len(f1.a) = Len(f2.a)), AllCastable(f1.a, f2.a, tree, seen, 1))

\* the scalar arms of castable: which scalar rhs each scalar self accepts
CastableScalar(l, r) ==
    CASE l.k \in {"Uint", "Int", "Bytes32"} -> r.k \in {"Uint", "Int", "Bytes32"}
      [] l.k = "EthAddress" -> r.k \in {"Uint", "Int", "Bytes32", "EthAddress"}
      [] l.k = "Bool" -> r.k \in {"Uint", "Int", "Bool", "Bytes32", "EthAddress"}

\* the purity test of the Func arm of castable
CastablePurity(l, r) ==
    LET view1 == purity(l)[1]
        write1 == purity(l)[2]
        view2 == purity(r)[1]
        write2 == purity(r)[2] IN
    (view1 \/ ~view2) /\ (write1 \/ ~write2)

castable(l, r, tree, seen) ==
    IF r = Every THEN "true"
    ELSE CASE l.k = "Any" -> B(r # Void)
      [] l.k \in {"Uint", "Int", "Bool", "Bytes32", "EthAddress"} ->
            B(CastableScalar(l, r))
      [] l.k \in {"Buffer", "Void", "Every", "Variable"} -> B(r = l)
      [] l.k = "Tuple" ->
            LET m == RepIs(r, tree, "Tuple") IN
            IF m = "true"
            THEN type_vectors_castable(l.a, RepOf(r, tree).a, tree, seen)
            ELSE m
      [] l.k = "Array" ->
            LET m == RepIs(r, tree, "Array") IN
            IF m = "true"
            THEN castable(l.a[1], RepOf(r, tree).a[1], tree, seen)
            ELSE m
      [] l.k = "FixedArray" ->
            LET m == RepIs(r, tree, "FixedArray") IN
            IF m = "true"
            THEN And(B(l.x[1] = RepOf(r, tree).x[1]),
                     castable(l.a[1], RepOf(r, tree).a[1], tree, seen))
            ELSE m
      [] l.k = "Struct" ->
            LET m == RepIs(r, tree, "Struct") IN
            IF m = "true"
            THEN field_vectors_castable(l, RepOf(r, tree), tree, seen)
            ELSE m
      [] l.k = "Nominal" ->
            LET m == BothRep(l, r, tree)
                left == RepOf(l, tree)
                right == RepOf(r, tree) IN
            IF m = "true"
            THEN IF <<left, right>> \notin seen
                 THEN castable(left, right, tree, seen \cup {<<left, right>>})
                 ELSE "true"
            ELSE m
      [] l.k = "Generic" -> GenericArgsEqual(l, r, tree, seen)
      [] l.k = "Func" ->
            IF r.k = "Func"
            THEN And(B(CastablePurity(l, r)),
                 And(type_vectors_castable(FuncArgs(r), FuncArgs(l), tree, seen),
                     castable(FuncRet(l), FuncRet(r), tree, seen)))
            ELSE "false"
      [] l.k = "Map" ->
            IF r.k = "Map"
            THEN LET val2 == get_representation(r.a[2], tree) IN
                 IF val2.st = "diverge" THEN "diverge"
                 ELSE IF val2.st = "ok"
                 THEN And(castable(l.a[1], r.a[1], tree, seen),
                          castable(l.a[2], val2.t, tree, seen))
                 ELSE "false"
            ELSE "false"
      [] l.k = "Option" ->
            LET m == RepIs(r, tree, "Option") IN
            IF m = "true"
            THEN castable(l.a[1], RepOf(r, tree).a[1], tree, seen)
            ELSE m
      [] l.k = "Union" ->
            LET m == RepIs(r, tree, "Union") IN
            IF m = "true"
            THEN type_vectors_castable(RepOf(r, tree).a, l.a, tree, seen)
            ELSE m

(***************************************************************************)
(* Type::covariant_castable and its vector helpers.                                      *)
(***************************************************************************)
RECURSIVE covariant_castable(_, _, _, _)
RECURSIVE AllCovariant(_, _, _, _, _)

AllCovariant(v1, v2, tree, seen, i) ==
    IF i > Len(v1) THEN "true"
    ELSE And(covariant_castable(v1[i], v2[i], tree, seen),
             AllCovariant(v1, v2, tree, seen, i + 1))

type_vectors_covariant_castable(tvec1, tvec2, tree, seen) ==
    And(B(Len(tvec1) = Len(tvec2)), AllCovariant(tvec1, tvec2, tree, seen, 1))

\* field names take no part
field_vectors_covariant_castable(f1, f2, tree, seen) ==
    And(B(Len(f1.a) = Len(f2.a)), AllCovariant(f1.a, f2.a, tree, seen, 1))

\* the scalar arm of covariant_castable
CovariantScalar(l, r) ==
    r.k \in {"Uint", "Int", "Bool", "Bytes32", "EthAddress"}

covariant_castable(l, r, tree, seen) ==
    IF r = Every THEN "true"
    ELSE CASE l.k = "Any" -> B(r # Void)
      [] l.k \in {"Uint", "Int", "Bool", "Bytes32", "EthAddress"} ->
            B(CovariantScalar(l, r))
      [] l.k \in {"Buffer", "Void", "Every", "Variable"} -> B(r = l)
      [] l.k = "Tuple" ->
            LET m == RepIs(r, tree, "Tuple") IN
            IF m = "true"
            THEN type_vectors_covariant_castable(l.a, RepOf(r, tree).a, tree, seen)
            ELSE m
      [] l.k = "Array" ->
            LET m == RepIs(r, tree, "Array") IN
            IF m = "true"
            THEN covariant_castable(l.a[1], RepOf(r, tree).a[1], tree, seen)
            ELSE m
      [] l.k = "FixedArray" ->
            LET m == RepIs(r, tree, "FixedArray") IN
            IF m = "true"
            THEN And(B(l.x[1] = RepOf(r, tree).x[1]),
                     covariant_castable(l.a[1], RepOf(r, tree).a[1], tree, seen))
            ELSE m
      [] l.k = "Struct" ->
            LET m == RepIs(r, tree, "Struct") IN
            IF m = "true"
            THEN field_vectors_covariant_castable(l, RepOf(r, tree), tree, seen)
            ELSE m
      [] l.k = "Nominal" ->
            LET m == BothRep(l, r, tree)
                left == RepOf(l, tree)
                right == RepOf(r, tree) IN
            IF m = "true"
            THEN IF <<left, right>> \notin seen
                 THEN covariant_castable(left, right, tree, seen \cup {<<left, right>>})
                 ELSE "true"
            ELSE m
      [] l.k = "Generic" -> GenericArgsEqual(l, r, tree, seen)
      [] l.k = "Func" ->
            IF r.k = "Func"
            THEN And(type_vectors_covariant_castable(FuncArgs(r), FuncArgs(l), tree, seen),
                     covariant_castable(FuncRet(l), FuncRet(r), tree, seen))
            ELSE "false"
      [] l.k = "Map" ->
            IF r.k = "Map"
            THEN LET val2 == get_representation(r.a[2], tree) IN
                 IF val2.st = "diverge" THEN "diverge"
                 ELSE IF val2.st = "ok"
                 THEN And(covariant_castable(l.a[1], r.a[1], tree, seen),
                          covariant_castable(l.a[2], val2.t, tree, seen))
                 ELSE "false"
            ELSE "false"
      [] l.k = "Option" ->
            LET m == RepIs(r, tree, "Option") IN
            m
      [] l.k = "Union" ->
            LET m == RepIs(r, tree, "Union") IN
            IF m = "true"
            THEN type_vectors_covariant_castable(RepOf(r, tree).a, l.a, tree, seen)
            ELSE m

(***************************************************************************)
(* Type::first_mismatch.  Option<TypeMismatch> is the path of the          *)
(* mismatch: a sequence of <<variant, position>> steps from the outermost  *)
(* TypeMismatch variant to the leaf; None is the empty path.  The types    *)
(* and lengths a leaf carries are left out.  A call that never returns is  *)
(* the path Diverged.                                                      *)
(***************************************************************************)
None == <<>>
Diverged == <<<<"diverge", 0>>>>
Leaf(variant) == <<<<variant, 0>>>>
\* Option::map(|inner| Variant(position, Box::new(inner)))
Wrap(variant, position, inner) ==
    IF inner = None \/ inner = Diverged THEN inner
    ELSE <<<<variant, position>>>> \o inner

RECURSIVE first_mismatch(_, _, _, _)
RECURSIVE FirstInVector(_, _, _, _, _, _)
RECURSIVE FirstInFields(_, _, _, _, _)

\* the loop `for (index, (left, right)) in v1.iter().zip(v2.iter()).enumerate()`
\* of the Tuple, Func and Union arms, and the find_map of the Generic arm
FirstInVector(variant, v1, v2, tree, seen, i) ==
    IF i > Len(v1) \/ i > Len(v2) THEN None
    ELSE LET inner == first_mismatch(v1[i], v2[i], tree, seen) IN
         IF inner # None THEN Wrap(variant, i - 1, inner)
         ELSE FirstInVector(variant, v1, v2, tree, seen, i + 1)

FirstInFields(f1, f2, tree, seen, i) ==
    IF i > Len(f1.a) \/ i > Len(f2.a) THEN None
    ELSE LET inner == first_mismatch(f1.a[i], f2.a[i], tree, seen) IN
         IF inner # None THEN Wrap("FieldType", f1.x[i], inner)
         ELSE IF f1.x[i] # f2.x[i] THEN Leaf("FieldName")
         ELSE FirstInFields(f1, f2, tree, seen, i + 1)

field_vectors_mismatch(f1, f2, tree, seen) ==
    LET inner == FirstInFields(f1, f2, tree, seen, 1) IN
    IF inner # None THEN inner
    ELSE IF Len(f1.a) # Len(f2.a) THEN Leaf("Length")
    ELSE None

\* a vector arm: first element mismatch, then the length test
VectorMismatch(variant, lengthVariant, v1, v2, tree, seen) ==
    LET inner == FirstInVector(variant, v1, v2, tree, seen, 1) IN
    IF inner # None THEN inner
    ELSE IF Len(v1) # Len(v2) THEN Leaf(lengthVariant)
    ELSE None

FuncMismatch(l, r, tree, seen) ==
    LET view1 == purity(l)[1]
        write1 == purity(l)[2]
        view2 == purity(r)[1]
        write2 == purity(r)[2]
        inArgs == VectorMismatch("FuncArg", "FuncArgLength",
                                 FuncArgs(l), FuncArgs(r), tree, seen)
        inRet == first_mismatch(FuncRet(l), FuncRet(r), tree, seen) IN
    IF inArgs # None THEN inArgs
    ELSE IF inRet # None THEN Wrap("FuncReturn", 0, inRet)
    ELSE IF ~view1 /\ view2 THEN Leaf("View")
    ELSE IF ~write1 /\ write2 THEN Leaf("Write")
    ELSE None

first_mismatch(l, r, tree, seen) ==
    IF r = Every THEN None
    ELSE CASE l.k = "Any" -> IF r # Void THEN None ELSE Leaf("Type")
      [] l.k \in ScalarKinds \cup {"Void", "Every", "Variable"} ->
            IF l = r THEN None ELSE Leaf("Type")
      [] l.k = "Tuple" ->
            LET m == RepIs(r, tree, "Tuple") IN
            IF m = "diverge" THEN Diverged
            ELSE IF m = "true"
            THEN VectorMismatch("Tuple", "TupleLength", l.a, RepOf(r, tree).a, tree, seen)
            ELSE Leaf("Type")
      [] l.k = "Generic" ->
            IF r.k = "Generic"
            THEN IF l.x[1] # r.x[1] THEN Leaf("GenericName")
                 ELSE IF Len(l.a) # Len(r.a) THEN Leaf("GenericLength")
                 ELSE FirstInVector("GenericVar", l.a, r.a, tree, seen, 1)
            ELSE Leaf("Type")
      [] l.k = "Array" ->
            LET m == RepIs(r, tree, "Array") IN
            IF m = "diverge" THEN Diverged
            ELSE IF m = "true"
            THEN Wrap("ArrayMismatch", 0,
                      first_mismatch(l.a[1], RepOf(r, tree).a[1], tree, seen))
            ELSE Leaf("Type")
      [] l.k = "FixedArray" ->
            LET m == RepIs(r, tree, "FixedArray") IN
            IF m = "diverge" THEN Diverged
            ELSE IF m = "true"
            THEN LET inner == first_mismatch(l.a[1], RepOf(r, tree).a[1], tree, seen) IN
                 IF inner # None THEN Wrap("ArrayMismatch", 0, inner)
                 ELSE IF l.x[1] # RepOf(r, tree).x[1] THEN Leaf("ArrayLength")
                 ELSE None
            ELSE Leaf("Type")
      [] l.k = "Struct" ->
            LET m == RepIs(r, tree, "Struct") IN
            IF m = "diverge" THEN Diverged
            ELSE IF m = "true"
            THEN field_vectors_mismatch(l, RepOf(r, tree), tree, seen)
            ELSE Leaf("Type")
      [] l.k = "Nominal" ->
            LET left == get_representation(l, tree)
                right == get_representation(r, tree) IN
            IF left.st = "diverge" \/ right.st = "diverge" THEN Diverged
            ELSE IF left.st = "ok" /\ right.st = "ok"
            THEN IF <<l, r>> \notin seen
                 THEN first_mismatch(left.t, right.t, tree, seen \cup {<<l, r>>})
                 ELSE None
            ELSE IF left.st = "ok" THEN Leaf("UnresolvedRight")
            ELSE IF right.st = "ok" THEN Leaf("UnresolvedLeft")
            ELSE Leaf("UnresolvedBoth")
      [] l.k = "Func" ->
            IF r.k = "Func" THEN FuncMismatch(l, r, tree, seen) ELSE Leaf("Type")
      [] l.k = "Map" ->
            IF r.k = "Map"
            THEN LET val2 == get_representation(r.a[2], tree) IN
                 IF val2.st = "diverge" THEN Diverged
                 ELSE IF val2.st = "ok"
                 THEN LET inKey == first_mismatch(l.a[1], r.a[1], tree, seen) IN
                      IF inKey # None THEN Wrap("Map", 1, inKey)
                      ELSE Wrap("Map", 0, first_mismatch(l.a[2], val2.t, tree, seen))
                 ELSE Leaf("Type")
            ELSE Leaf("Type")
      [] l.k = "Option" ->
            LET m == RepIs(r, tree, "Option") IN
            IF m = "diverge" THEN Diverged
            ELSE IF m = "true"
            THEN Wrap("Option", 0,
                      first_mismatch(l.a[1], RepOf(r, tree).a[1], tree, seen))
            ELSE Leaf("Type")
      [] l.k = "Union" ->
            LET m == RepIs(r, tree, "Union") IN
            IF m = "diverge" THEN Diverged
            ELSE IF m = "true"
            THEN VectorMismatch("Union", "UnionLength", l.a, RepOf(r, tree).a, tree, seen)
            ELSE Leaf("Type")

(***************************************************************************)
(* Inputs of the type relations: the types and the type trees the          *)
(* relations are applied to.                                               *)
(***************************************************************************)
NominalIds == 1..NumNominals
Nominals == {Nominal(i) : i \in NominalIds}

TypeUniverse ==
    {Void, Uint, IntT, Bool, Bytes32, EthAddress, Buffer, Any, Every, Variable(1)}
    \cup Nominals
    \cup {Tuple(<<>>), Tuple(<<Uint>>), Tuple(<<Uint, Bool>>)}
    \cup {Tuple(<<n>>) : n \in Nominals}
    \cup {Array(Uint), Array(Any)}
    \cup {FixedArray(Uint, s) : s \in 1..MaxFixedSize}
    \cup {Struct(<<f>>, <<Uint>>) : f \in {1, 2}}
    \cup {Func(v, w, <<>>, Void) : v \in {0, 1}, w \in {0, 1}}
    \cup {Func(0, 0, <<Uint>>, Void), Func(0, 0, <<Any>>, Void),
          Func(0, 0, <<>>, Uint), Func(0, 0, <<>>, Any)}
    \cup {Map(Uint, Uint), Map(Any, Uint), Map(Uint, Nominal(1))}
    \cup {Option(Uint), Option(Any), Option(Nominal(1))}
    \cup {Union(<<Uint>>), Union(<<Any>>), Union(<<Uint, Bool>>)}
    \cup {Generic(1, <<Uint>>), Generic(1, <<Any>>), Generic(2, <<Uint>>),
          Generic(1, <<>>)}

\* what a type declaration `type N = ...` may name: a scalar, another (or the
\* same) nominal, or a structure that refers back to N
Bodies(i) ==
    {Uint, Nominal(1), Nominal((i % NumNominals) + 1), Tuple(<<Nominal(i)>>)}

TypeTrees ==
    UNION {{tree \in [D -> UNION {Bodies(i) : i \in D}] :
                \A i \in D : tree[i] \in Bodies(i)} : D \in SUBSET NominalIds}

Unset == "unset"
UnsetMismatch == <<<<"unset", 0>>>>

TypesIdle ==
    /\ type_tree = <<>>
    /\ lhs = Void
    /\ rhs = Void
    /\ resA = "idle"
    /\ resC = "idle"
    /\ resV = "idle"
    /\ resM = None

InlineIdle ==
    /\ funcs = <<>>
    /\ heuristic = "None"
    /\ target = 0
    /\ inlined = <<>>
    /\ inlinePc = "idle"

TcIdle ==
    /\ tcModules = <<>>
    /\ tcMod = 0
    /\ tcIdx = 0
    /\ tcChecked = {}
    /\ tcErrors = <<>>
    /\ tcStatus = "idle"

StmtIdle == stmtFunc = "idle" /\ stmtResult = "idle"

FlowIdle == flowFunc = "idle" /\ flowResult = "idle"

BinIdle == binExpr = "idle" /\ binResult = "idle"

SymIdle == symOps = <<>> /\ symTable = "idle" /\ copyTable = "idle"

LiveIdle == liveFunc = "idle" /\ liveResult = "idle"

ImpIdle == impFunc = "idle" /\ impImports = {}

StrIdle == strTable = "idle" /\ strCalls = <<>>

WalkIdle == walkRoot = "idle" /\ walkResult = <<>>

PureIdle == pureFunc = "idle" /\ pureResult = <<>>

ModIdle == modArgs = "idle" /\ modResult = <<>>

TreeIdle ==
    /\ treeGraph = <<>> /\ treePaths = <<>> /\ treeSeen = {} /\ treePrograms = {}
    /\ treeParses = <<>> /\ treePc = "idle"

LastIdle == StrIdle /\ WalkIdle /\ PureIdle /\ ModIdle /\ TreeIdle

LaterIdle == StmtIdle /\ FlowIdle /\ BinIdle /\ SymIdle /\ LiveIdle /\ ImpIdle /\ LastIdle

TypesInit ==
    /\ type_tree \in TypeTrees
    /\ lhs \in TypeUniverse
    /\ rhs \in TypeUniverse
    /\ resA = Unset
    /\ resC = Unset
    /\ resV = Unset
    /\ resM = UnsetMismatch
    /\ InlineIdle
    /\ TcIdle
    /\ LaterIdle

\* lhs.assignable(&rhs, &type_tree, HashSet::new())
Assignable ==
    /\ resA = Unset
    /\ resA' = assignable(lhs, rhs, type_tree, {})
    /\ UNCHANGED <<type_tree, lhs, rhs, resC, resV, resM, inlineVars, tcVars, laterVars>>

\* lhs.castable(&rhs, &type_tree, HashSet::new())
Castable ==
    /\ resC = Unset
    /\ resC' = castable(lhs, rhs, type_tree, {})
    /\ UNCHANGED <<type_tree, lhs, rhs, resA, resV, resM, inlineVars, tcVars, laterVars>>

\* lhs.covariant_castable(&rhs, &type_tree, HashSet::new())
CovariantCastable ==
    /\ resV = Unset
    /\ resV' = covariant_castable(lhs, rhs, type_tree, {})
    /\ UNCHANGED <<type_tree, lhs, rhs, resA, resC, resM, inlineVars, tcVars, laterVars>>

\* lhs.first_mismatch(&rhs, &type_tree, HashSet::new())
FirstMismatch ==
    /\ resM = UnsetMismatch
    /\ resM' = first_mismatch(lhs, rhs, type_tree, {})
    /\ UNCHANGED <<type_tree, lhs, rhs, resA, resC, resV, inlineVars, tcVars, laterVars>>

TypesNext == Assignable \/ Castable \/ CovariantCastable \/ FirstMismatch

SpecTypes == TypesInit /\ [][TypesNext]_vars

(***************************************************************************)
(* Properties of the type relations (checked under SpecTypes).             *)
(***************************************************************************)
CalledA == resA # Unset
CalledC == resC # Unset
CalledV == resV # Unset
CalledM == resM # UnsetMismatch

\* C1: for every pair of types (lhs, rhs) on which both calls return,
\* first_mismatch reports None exactly when assignable is true.
C1_MismatchIffNotAssignable ==
    (CalledA /\ CalledM /\ resA \in {"true", "false"} /\ resM # Diverged)
        => ((resM = None) <=> (resA = "true"))

\* every nominal in t, at any depth, is defined by the tree and its chain of
\* references ends in a structural type
RECURSIVE Resolves(_, _)
Resolves(t, tree) ==
    /\ get_representation(t, tree).st = "ok"
    /\ \A i \in 1..Len(t.a) : Resolves(t.a[i], tree)

\* C2: assignable is reflexive: assignable(A, A) returns true for every type A
\* (here: every A whose nominals the type tree resolves).
C2_AssignableReflexive ==
    (CalledA /\ lhs = rhs /\ Resolves(lhs, type_tree)) => resA = "true"

\* C3: assignable terminates on every pair of types over every type tree,
\* cyclic ones included, and with N |-> Tuple([Nominal(N)]) it returns true on
\* (Nominal(N), Nominal(N)).
C3_AssignableTerminates ==
    CalledA =>
        /\ resA # "diverge"
        /\ (/\ lhs = rhs
            /\ lhs.k = "Nominal"
            /\ lhs.x[1] \in DOMAIN type_tree
            /\ type_tree[lhs.x[1]] = Tuple(<<lhs>>)) => resA = "true"

\* C4: assignable(lhs, rhs) equals assignable(repr(lhs), repr(rhs)) whenever
\* both representations exist.
C4_AssignableThroughRepresentation ==
    (CalledA /\ BothRep(lhs, rhs, type_tree) = "true")
        => resA = assignable(RepOf(lhs, type_tree), RepOf(rhs, type_tree),
                             type_tree, {})

SameSignature == lhs.k = "Func" /\ rhs.k = "Func" /\ lhs.a = rhs.a
\* lhs permits at least the effects of rhs
PermitsAtLeast == (lhs.x[1] = 1 \/ rhs.x[1] = 0) /\ (lhs.x[2] = 1 \/ rhs.x[2] = 0)

C6_CastableBroader == (CalledA /\ CalledC /\ resA = "true") => resC = "true"

\* C7: covariant_castable between two function types holds only if their
\* purity pairs are equal.
C7_CovariantPurityEqual ==
    (CalledV /\ lhs.k = "Func" /\ rhs.k = "Func" /\ resV = "true")
        => purity(lhs) = purity(rhs)

\* C8: covariant_castable is false when exactly one side is Bool and the
\* other is Uint or Int.
C8_CovariantNoBoolInteger ==
    (CalledV /\ (\/ (lhs = Bool /\ rhs \in {Uint, IntT})
                 \/ (rhs = Bool /\ lhs \in {Uint, IntT})))
        => resV = "false"

(***************************************************************************)
(* Typed AST.  A node is a record [k, c, id, mode, label]: k the variant   *)
(* of TypeCheckedStatementKind / TypeCheckedExprKind, c the sequence of    *)
(* nodes it owns, id the function id of a FuncRef, mode the inlining       *)
(* attribute of its debug_info, label the scope of a Break or of a code    *)
(* block ("" for no scope).  A TypeCheckedCodeBlock owns its body          *)
(* statements followed by its ret_expr, if it has one.  Option<expr>       *)
(* fields are sequences of length 0 or 1.                                  *)
(***************************************************************************)
Node(k, c, id, mode, label) ==
    [k |-> k, c |-> c, id |-> id, mode |-> mode, label |-> label]

StatementKinds ==
    {"Noop", "ReturnVoid", "Return", "Break", "Expression", "Let",
     "AssignLocal", "AssignGlobal", "While", "AsmStatement", "DebugPrint",
     "Assert"}

IsStatement(n) == n.k \in StatementKinds

Noop == Node("Noop", <<>>, 0, "Auto", "")
ReturnVoid(mode) == Node("ReturnVoid", <<>>, 0, mode, "")
Return(exp, mode) == Node("Return", <<exp>>, 0, mode, "")
Break(oexp, scope, mode) == Node("Break", oexp, 0, mode, scope)
Expression(exp, mode) == Node("Expression", <<exp>>, 0, mode, "")
Let(exp, mode) == Node("Let", <<exp>>, 0, mode, "")
While(cond, stats, mode) == Node("While", <<cond>> \o stats, 0, mode, "")

Const == Node("Const", <<>>, 0, "Auto", "")
Error == Node("Error", <<>>, 0, "Auto", "")
FuncRef(id) == Node("FuncRef", <<>>, id, "Auto", "")
FunctionCall(name, args) == Node("FunctionCall", <<name>> \o args, 0, "Auto", "")
TupleExpr(exps) == Node("Tuple", exps, 0, "Auto", "")
Asm(exps, mode) == Node("Asm", exps, 0, mode, "")
Try(inner) == Node("Try", <<inner>>, 0, "Auto", "")
Loop(stats) == Node("Loop", stats, 0, "Auto", "")
TypeCheckedCodeBlock(body, ret_expr, scope) ==
    Node("TypeCheckedCodeBlock", body \o ret_expr, 0, "Auto", scope)
CodeBlock(block) == Node("CodeBlock", <<block>>, 0, "Auto", "")
If(cond, block, else_block, mode) ==
    Node("If", <<cond, block>> \o else_block, 0, mode, "")

\* Func<TypeCheckedStatement>: name, number of arguments, the inlining
\* attribute of the declaration and the body.
TypeCheckedFunc(name, args, mode, code) ==
    [name |-> name, args |-> args, mode |-> mode, code |-> code]

\* The root the walker starts from when it runs over a whole function.
FuncNode(func) == Node("Func", func.code, func.name, func.mode, "")

Last(s) == s[Len(s)]
Front(s) == SubSeq(s, 1, Len(s) - 1)
Range(s) == {s[i] : i \in DOMAIN s}

\* The nodes child_nodes returns, as paths into the node: <<i>> is the i-th
\* owned node, <<i, j>> the j-th node owned by that one.
Direct(n) == [i \in 1..Len(n.c) |-> <<i>>]
Under(n, i) == [j \in 1..Len(n.c[i].c) |-> <<i, j>>]

ExprChildPaths(n) ==
    CASE n.k = "CodeBlock" -> Under(n, 1)
      [] n.k = "If" ->
            <<<<1>>>> \o Under(n, 2) \o (IF Len(n.c) = 3 THEN Under(n, 3) ELSE <<>>)
      [] OTHER -> Direct(n)

ChildPaths(n) ==
    IF n.k = "Break"
    THEN IF n.c = <<>> THEN <<>>
         ELSE LET inner == ExprChildPaths(n.c[1]) IN
              [i \in 1..Len(inner) |-> <<1>> \o inner[i]]
    ELSE IF IsStatement(n) \/ n.k = "Func" THEN Direct(n)
    ELSE ExprChildPaths(n)

RECURSIVE At(_, _)
At(n, path) == IF path = <<>> THEN n ELSE At(n.c[Head(path)], Tail(path))

RECURSIVE Put(_, _, _)
Put(n, path, new) ==
    IF path = <<>> THEN new
    ELSE [n EXCEPT !.c[Head(path)] = Put(@, Tail(path), new)]

child_nodes(n) == LET paths == ChildPaths(n) IN
    [i \in 1..Len(paths) |-> At(n, paths[i])]

\* strip_returns: the rewritten node; it always asks the walker to descend.
strip_returns(to_strip) ==
    IF to_strip.k = "Return"
    THEN [to_strip EXCEPT !.k = "Break", !.label = "_inline"]
    ELSE IF to_strip.k = "ReturnVoid"
    THEN [to_strip EXCEPT !.k = "Break", !.label = "_inline"]
    ELSE IF to_strip.k = "Try"
    THEN LET inner == to_strip.c[1]
             m == inner.mode IN
         [to_strip EXCEPT
            !.k = "CodeBlock",
            !.c = <<TypeCheckedCodeBlock(<<>>,
                      <<If(Asm(<<inner>>, m),
                           TypeCheckedCodeBlock(<<>>, <<Asm(<<>>, m)>>, ""),
                           <<TypeCheckedCodeBlock(
                               <<Break(<<Asm(<<>>, m)>>, "_inline", m)>>,
                               <<[Error EXCEPT !.mode = m]>>, "")>>,
                           m)>>,
                      "")>>]
    ELSE to_strip

\* InliningMode::and
and(self, other) == IF self = "Auto" THEN other ELSE self

find(fs, id) ==
    LET hits == {i \in DOMAIN fs : fs[i].name = id} IN
    IF hits = {} THEN 0 ELSE CHOOSE i \in hits : \A j \in hits : i <= j

Refused(h, mode) ==
    IF h = "All" THEN mode = "Never" ELSE mode # "Always"

\* A test that lets a function through until it is on the stack twice.
on_stack_twice(stack, name) ==
    Cardinality({i \in DOMAIN stack : stack[i] = name}) >= 2

\* _mut_state.1.iter().any(|id| *id == func.name)
on_stack(stack, name) == \E i \in DOMAIN stack : stack[i] = name

RECURSIVE recursive_apply(_, _, _, _)
RECURSIVE ApplyToChildren(_, _, _, _, _, _)
RECURSIVE inline(_, _, _)

\* A function for the walker that always returns true: it writes on the
\* node the mut_state it was handed and how often it has been applied to the
\* node, and pushes the id of the node on the mut_state.
observe(node, ms) ==
    [node |-> [k |-> node.k, c |-> node.c, id |-> node.id, mode |-> node.mode,
               label |-> node.label, seen |-> ms,
               visits |-> IF "visits" \in DOMAIN node THEN node.visits + 1 ELSE 1],
     ms |-> Append(ms, node.id),
     recurse |-> TRUE]

\* A loop that goes on with the state the child left.
child_state_kept(mut_state, child_state) == child_state

\* The mut_state of the loop after a child: func and the recursion were
\* handed child_state, a clone, so mut_state is as it was.
mut_state_kept(mut_state, child_state) == mut_state

\* inline(to_do, state, _mut_state): the node, the mut_state it leaves and
\* whether the walker descends.  state is [funcs, heuristic], _mut_state is
\* [mode, stack].  The id of the block expression a call is replaced by
\* records the callee the block was made from; the code keeps no such mark
\* and nothing in the model of the code reads it.
inline(to_do, state, ms) ==
    LET ms0 == IF IsStatement(to_do) THEN [ms EXCEPT !.mode = to_do.mode] ELSE ms
        same(rec) == [node |-> to_do, ms |-> ms0, recurse |-> rec]
    IN
    IF to_do.k = "FunctionCall" /\ to_do.c[1].k = "FuncRef"
    THEN LET found == find(state.funcs, to_do.c[1].id) IN
         IF found = 0 THEN same(TRUE)
         ELSE LET func == state.funcs[found] IN
              IF Refused(state.heuristic, and(ms0.mode, func.mode)) THEN same(FALSE)
              ELSE IF on_stack(ms0.stack, func.name) THEN same(FALSE)
              ELSE LET args == Tail(to_do.c)
                       prelude ==
                           IF func.args = 0 THEN <<>>
                           ELSE <<Let(TupleExpr(
                                    [i \in 1..Len(args) |->
                                        recursive_apply("strip_returns", args[i], <<>>, <<>>)]),
                                    "Auto")>>
                       all == prelude \o func.code
                       returns == all # <<>> /\ Last(all).k = "Return"
                       block_exp ==
                           IF returns
                           THEN <<recursive_apply("strip_returns", Last(all).c[1], <<>>, <<>>)>>
                           ELSE <<>>
                       code == IF returns THEN Front(all) ELSE all
                       stripped ==
                           [i \in 1..Len(code) |->
                               recursive_apply("strip_returns", code[i], <<>>, <<>>)]
                   IN [node |-> [to_do EXCEPT
                                   !.k = "CodeBlock",
                                   !.id = func.name,
                                   !.c = <<TypeCheckedCodeBlock(stripped, block_exp, "_inline")>>],
                       ms |-> [ms0 EXCEPT !.stack = Append(@, func.name)],
                       recurse |-> TRUE]
    ELSE same(TRUE)

\* func(child, state, &mut child_state) for the two functions the walker is
\* used with.
Apply(func, child, state, ms) ==
    IF func = "strip_returns"
    THEN [node |-> strip_returns(child), ms |-> ms, recurse |-> TRUE]
    ELSE IF func = "observe" THEN observe(child, ms)
    ELSE inline(child, state, ms)

\* The loop of recursive_apply over the children, from the i-th on.
ApplyToChildren(func, n, paths, i, state, ms) ==
    IF i > Len(paths) THEN n
    ELSE LET r == Apply(func, At(n, paths[i]), state, ms)
             child == IF r.recurse
                      THEN recursive_apply(func, r.node, state, r.ms)
                      ELSE r.node
         IN ApplyToChildren(func, Put(n, paths[i], child), paths, i + 1, state,
                            mut_state_kept(ms, r.ms))

recursive_apply(func, n, state, ms) ==
    ApplyToChildren(func, n, ChildPaths(n), 1, state, ms)

\* The mut_state the caller of recursive_apply has after the call.
RECURSIVE mut_state_after(_, _, _, _, _, _)
mut_state_after(func, n, paths, i, state, ms) ==
    IF i > Len(paths) THEN ms
    ELSE mut_state_after(func, n, paths, i + 1, state,
                         mut_state_kept(ms, Apply(func, At(n, paths[i]), state, ms).ms))

\* TypeCheckedFunc::inline: the code of the function afterwards.
TypeCheckedFunc_inline(self, fs, h) ==
    recursive_apply("inline", FuncNode(self),
                    [funcs |-> fs, heuristic |-> h],
                    [mode |-> "Auto", stack |-> <<>>]).c

(***************************************************************************)
(* Inputs of the inliner: function tables of NumFuncs functions.  funcs[1] *)
(* is the function the inliner runs over, the others are its callees.      *)
(* Function i takes i % 2 arguments; Imported is the id of a function      *)
(* that is called but is not in the table.                                 *)
(***************************************************************************)
NumFuncs == 2

FuncIds == 1..NumFuncs
Imported == NumFuncs + 1
InliningMode == {"Always", "Auto", "Never"}
InliningHeuristic == {"All", "None"}
ArgCount(id) == id % 2

SimpleCall(id) ==
    FunctionCall(FuncRef(id), IF ArgCount(id) = 0 THEN <<>> ELSE <<Const>>)
NestedCalls ==
    {FunctionCall(FuncRef(id), <<SimpleCall(arg)>>) :
        id \in {i \in FuncIds : ArgCount(i) = 1}, arg \in FuncIds}
SimpleCalls == {SimpleCall(id) : id \in FuncIds}
CallExprs == SimpleCalls \cup {SimpleCall(Imported)} \cup NestedCalls

\* return e;
ReturnCall(e, mode) == <<Return(e, mode)>>
\* e;
ExprCall(e) == <<Expression(e, "Auto")>>
\* { break e; };
BreakCall(e) ==
    <<Expression(CodeBlock(TypeCheckedCodeBlock(
                    <<Break(<<e>>, "_", "Auto")>>, <<>>, "")), "Auto")>>
\* if c { return e; }; return c;
EarlyReturn(e) ==
    <<Expression(If(Const, TypeCheckedCodeBlock(<<Return(e, "Auto")>>, <<>>, ""),
                    <<>>, "Auto"), "Auto"),
      Return(Const, "Auto")>>
\* return e?;
TryCall(e) == <<Return(Try(e), "Auto")>>
\* f({ return c; }); with the location of the return statement recorded
CallerLoc == Imported + 1
ArgReturn(id) ==
    <<Expression(FunctionCall(FuncRef(id),
        <<CodeBlock(TypeCheckedCodeBlock(
            <<[Return(Const, "Auto") EXCEPT !.id = CallerLoc]>>, <<>>, ""))>>), "Auto")>>

LeafBodies == {<<Return(Const, "Auto")>>, <<ReturnVoid("Auto")>>}

TargetBodies ==
    LeafBodies
    \cup {ReturnCall(e, "Auto") : e \in CallExprs}
    \cup {ReturnCall(e, mode) : e \in SimpleCalls, mode \in InliningMode}
    \cup {ExprCall(e) : e \in CallExprs}
    \cup {BreakCall(e) : e \in CallExprs}
    \cup {EarlyReturn(e) : e \in CallExprs}
    \cup {TryCall(e) : e \in CallExprs}
    \cup {ArgReturn(id) : id \in {i \in FuncIds : ArgCount(i) = 1}}

CalleeBodies ==
    LeafBodies
    \cup {ReturnCall(e, "Auto") : e \in SimpleCalls}
    \cup {EarlyReturn(e) : e \in SimpleCalls}

FuncsNamed(id) ==
    {TypeCheckedFunc(id, ArgCount(id), mode, code) :
        mode \in InliningMode,
        code \in IF id = 1 THEN TargetBodies ELSE CalleeBodies}

RECURSIVE FuncTables(_)
FuncTables(n) ==
    IF n = 0 THEN {<<>>}
    ELSE {Append(fs, func) : fs \in FuncTables(n - 1), func \in FuncsNamed(n)}

InlineInit ==
    /\ funcs \in FuncTables(NumFuncs)
    /\ heuristic \in InliningHeuristic
    /\ target = 1
    /\ inlined = <<>>
    /\ inlinePc = "ready"
    /\ TypesIdle
    /\ TcIdle
    /\ LaterIdle

\* funcs[target].inline(&funcs, &imported_funcs, &string_table, &heuristic)
Inline ==
    /\ inlinePc = "ready"
    /\ inlined' = TypeCheckedFunc_inline(funcs[target], funcs, heuristic)
    /\ inlinePc' = "done"
    /\ UNCHANGED <<funcs, heuristic, target, typeVars, tcVars, laterVars>>

InlineNext == Inline

SpecInline == InlineInit /\ [][InlineNext]_vars

(***************************************************************************)
(* Claims about the inliner.                                               *)
(***************************************************************************)
\* The ids called by FunctionCall nodes anywhere in a tree.
RECURSIVE CallsIn(_)
CallsIn(n) ==
    (IF n.k = "FunctionCall" /\ n.c[1].k = "FuncRef" THEN {n.c[1].id} ELSE {})
    \cup UNION {CallsIn(n.c[i]) : i \in 1..Len(n.c)}

CalleesOf(code) == UNION {CallsIn(code[i]) : i \in 1..Len(code)}

\* The inlining attributes of the statements anywhere in a tree.
RECURSIVE SiteModesIn(_)
SiteModesIn(n) ==
    (IF IsStatement(n) THEN {n.mode} ELSE {})
    \cup UNION {SiteModesIn(n.c[i]) : i \in 1..Len(n.c)}

AllSitesAuto ==
    \A i \in DOMAIN funcs : \A s \in Range(funcs[i].code) : SiteModesIn(s) \subseteq {"Auto"}

RECURSIVE CalledWithin(_, _)
CalledWithin(ids, steps) ==
    IF steps = 0 THEN ids
    ELSE CalledWithin(
            ids \cup UNION {CalleesOf(funcs[i].code) : i \in ids \cap DOMAIN funcs},
            steps - 1)

NoRecursion ==
    \A i \in DOMAIN funcs : i \notin CalledWithin(CalleesOf(funcs[i].code), Len(funcs))

IsAlways(id) == find(funcs, id) # 0 /\ funcs[find(funcs, id)].mode = "Always"

\* C9: after the inliner has run over a function, no call of a function
\* whose inlining mode is Always remains in its code.  (Stated for tables
\* without recursion and without inlining attributes on statements, where
\* the inliner has no documented reason to refuse such a call.)
C9_NoAlwaysCallRemains ==
    (inlinePc = "done" /\ NoRecursion /\ AllSitesAuto) =>
        \A id \in CalleesOf(inlined) : ~IsAlways(id)

(***************************************************************************)
(* Claims about the blocks the inliner makes.                              *)
(***************************************************************************)
RECURSIVE NodesIn(_)
NodesIn(n) == {n} \cup UNION {NodesIn(n.c[i]) : i \in 1..Len(n.c)}

NodesOf(code) == UNION {NodesIn(code[i]) : i \in 1..Len(code)}

IsInlineBlock(n) == n.k = "TypeCheckedCodeBlock" /\ n.label = "_inline"

\* The let that binds the arguments, put before the body of the callee.
IsPrelude(stat) == stat.k = "Let" /\ stat.c[1].k = "Tuple"

\* What a synthesized block has from the callee: everything but the let of
\* the arguments, which are expressions of the caller.
CalleePart(block) ==
    IF block.c # <<>> /\ IsPrelude(block.c[1]) THEN Tail(block.c) ELSE block.c

\* C22: once a function is inlined, no synthesized "_inline" block has a
\* Return, a ReturnVoid or a Try of the callee in it at any depth, the
\* top-level statements of the callee body included.
C22_NoReturnInInlinedBody ==
    inlinePc = "done" =>
        \A b \in {n \in NodesOf(inlined) : IsInlineBlock(n)} :
            \A n \in NodesOf(CalleePart(b)) : n.k \notin {"Return", "ReturnVoid", "Try"}

\* Every break to "_inline" below n lies in a block labelled "_inline".
RECURSIVE BreaksScoped(_, _)
BreaksScoped(n, inside) ==
    /\ (n.k = "Break" /\ n.label = "_inline") => inside
    /\ \A i \in 1..Len(n.c) : BreaksScoped(n.c[i], inside \/ IsInlineBlock(n))

\* C23: inlining keeps the target of every early exit: a break to "_inline"
\* lies in a synthesized "_inline" block, and a return written in the
\* caller, also one inside an argument of the inlined call, is still a
\* return of the caller afterwards.
C23_EarlyExitsKeepTarget ==
    inlinePc = "done" =>
        /\ \A i \in DOMAIN inlined : BreaksScoped(inlined[i], FALSE)
        /\ \A n \in NodesOf(inlined) :
              (IsStatement(n) /\ n.id = CallerLoc) => n.k = "Return"

\* The callees of the synthesized blocks around each block are all other
\* functions than the callee of the block.
RECURSIVE NoSelfNesting(_, _)
NoSelfNesting(n, around) ==
    LET callee == IF n.k = "CodeBlock" /\ n.id # 0 THEN {n.id} ELSE {} IN
    /\ callee \cap around = {}
    /\ \A i \in 1..Len(n.c) : NoSelfNesting(n.c[i], around \cup callee)

\* The number of synthesized blocks that lie one in another at n.
RECURSIVE BlockDepth(_)
BlockDepth(n) ==
    (IF n.k = "CodeBlock" /\ n.id # 0 THEN 1 ELSE 0)
    + (IF n.c = <<>> THEN 0
       ELSE LET ds == {BlockDepth(n.c[i]) : i \in 1..Len(n.c)}
            IN CHOOSE d \in ds : \A e \in ds : e <= d)

\* C24: the inliner ends on every table of functions, directly and mutually
\* recursive ones included: in its result the synthesized blocks lie at
\* most as deep as there are functions, and no body of a callee is nested
\* in a body of the same callee that was inlined around it.
C24_InliningTerminates ==
    inlinePc = "done" =>
        \A i \in DOMAIN inlined :
            /\ NoSelfNesting(inlined[i], {})
            /\ BlockDepth(inlined[i]) <= Len(funcs)

\* Mutual recursion: a body of one function inlined in a body of another,
\* with a call of the outer function left in it.
C24_Witness ==
    /\ inlinePc = "done"
    /\ \E outer \in NodesOf(inlined) :
          /\ outer.k = "CodeBlock" /\ outer.id # 0
          /\ \E inner \in NodesIn(outer) :
                /\ inner.k = "CodeBlock" /\ inner.id \notin {0, outer.id}
                /\ outer.id \in CallsIn(inner)

(***************************************************************************)
(* The type-check driver.  A function declaration is a record [name,       *)
(* ret_void, code, args_ok, body_ok]: code is the sequence of the kinds of *)
(* its statements, args_ok says that every argument type resolves and no   *)
(* argument is named like a top-level symbol, body_ok that                 *)
(* typecheck_statement_sequence accepts the body.  A module is a record    *)
(* [imports, funcs]: the names it imports and its functions in the order   *)
(* of the BTreeMap, that is by name.                                       *)
(***************************************************************************)
MaxFuncs == 2       \* functions of a module: 1..MaxFuncs
NumModules == 2     \* modules of the folder

FuncDecl(name, ret_void, code, args_ok, body_ok) ==
    [name |-> name, ret_void |-> ret_void, code |-> code,
     args_ok |-> args_ok, body_ok |-> body_ok]

Ok == "ok"

\* typecheck_function: Ok, or the reason of the CompileError it returns.
typecheck_function(fd, undefinable_ids) ==
    IF ~fd.ret_void /\ Len(fd.code) = 0 THEN "never returns"
    ELSE IF ~fd.ret_void /\ Last(fd.code) # "Return"
    THEN "last statement is not a return"
    ELSE IF fd.name \in undefinable_ids
    THEN "same name as another top-level symbol"
    ELSE IF ~fd.args_ok THEN "argument"
    ELSE IF ~fd.body_ok THEN "statement"
    ELSE Ok

FuncDecls(name) ==
    {FuncDecl(name, TRUE, <<>>, TRUE, TRUE),
     FuncDecl(name, FALSE, <<"Return">>, TRUE, TRUE),
     FuncDecl(name, FALSE, <<>>, TRUE, TRUE),
     FuncDecl(name, FALSE, <<"Expression">>, TRUE, TRUE),
     FuncDecl(name, TRUE, <<"Expression">>, FALSE, TRUE),
     FuncDecl(name, FALSE, <<"Return">>, TRUE, FALSE)}

RECURSIVE FuncMaps(_)
FuncMaps(n) ==
    IF n = 0 THEN {<<>>}
    ELSE {Append(fs, fd) : fs \in FuncMaps(n - 1), fd \in FuncDecls(n)}

Modules ==
    {[imports |-> imports, funcs |-> fs] :
        imports \in {{}, {MaxFuncs}},
        fs \in UNION {FuncMaps(n) : n \in 1..MaxFuncs}}

RECURSIVE Folders(_)
Folders(n) ==
    IF n = 0 THEN {<<>>}
    ELSE {Append(ms, m) : ms \in Folders(n - 1), m \in Modules}

TcInit ==
    /\ tcModules \in Folders(NumModules)
    /\ tcMod = 1
    /\ tcIdx = 1
    /\ tcChecked = {}
    /\ tcErrors = <<>>
    /\ tcStatus = "running"
    /\ TypesIdle
    /\ InlineIdle
    /\ LaterIdle

CompileError(module, fd, reason) ==
    [module |-> module, name |-> fd.name, reason |-> reason]

\* One turn of the loop of typecheck_top_level_decls.  The ? on the call
\* of typecheck_function returns its error from typecheck_top_level_decls,
\* and the ? of compile_from_folder returns it from the run.
CheckFunction ==
    /\ tcStatus = "running"
    /\ tcIdx <= Len(tcModules[tcMod].funcs)
    /\ LET module == tcModules[tcMod]
           func == module.funcs[tcIdx]
           f == typecheck_function(func, module.imports)
       IN /\ tcChecked' = tcChecked \cup {<<tcMod, tcIdx>>}
          /\ IF f = Ok
             THEN /\ tcIdx' = tcIdx + 1
                  /\ UNCHANGED <<tcErrors, tcStatus>>
             ELSE /\ tcErrors' = Append(tcErrors, CompileError(tcMod, func, f))
                  /\ tcStatus' = "failed"
                  /\ UNCHANGED tcIdx
    /\ UNCHANGED <<tcModules, tcMod, typeVars, inlineVars, laterVars>>

\* typecheck_top_level_decls returns Ok and compile_from_folder goes on
\* to the next module.
NextModule ==
    /\ tcStatus = "running"
    /\ tcIdx > Len(tcModules[tcMod].funcs)
    /\ tcMod < Len(tcModules)
    /\ tcMod' = tcMod + 1
    /\ tcIdx' = 1
    /\ UNCHANGED <<tcModules, tcChecked, tcErrors, tcStatus, typeVars, inlineVars, laterVars>>

\* The last module is done: compile_from_folder returns Ok(progs).
Finish ==
    /\ tcStatus = "running"
    /\ tcIdx > Len(tcModules[tcMod].funcs)
    /\ tcMod = Len(tcModules)
    /\ tcStatus' = "ok"
    /\ UNCHANGED <<tcModules, tcMod, tcIdx, tcChecked, tcErrors, typeVars, inlineVars, laterVars>>

TcNext == CheckFunction \/ NextModule \/ Finish

SpecTc == TcInit /\ [][TcNext]_vars

\* C10: when the run fails, every function of the module it failed in has
\* been type-checked and the error of every function of that module that
\* has one is among the reported errors.
C10_ErrorsAccumulated ==
    tcStatus = "failed" =>
        \A i \in 1..Len(tcModules[tcMod].funcs) :
            LET func == tcModules[tcMod].funcs[i]
                f == typecheck_function(func, tcModules[tcMod].imports)
            IN /\ <<tcMod, i>> \in tcChecked
               /\ f # Ok => CompileError(tcMod, func, f) \in Range(tcErrors)

(***************************************************************************)
(* Type checking of statements.  A source statement is a record [k, exp,   *)
(* scope, body]: exp the optional expression of a Return or Break, given   *)
(* by the type typecheck_expr finds for it, scope the optional label of a  *)
(* Break, body the statements of a code block or of a while loop.  The     *)
(* scope stack is a sequence of [name, tipe] with tipe an optional type.   *)
(***************************************************************************)
MaxStmts == 2       \* statements of a function body: 0..MaxStmts
MaxBlockLen == 2    \* statements of a code block: 0..MaxBlockLen

Statement(k, exp, scope, body) ==
    [k |-> k, exp |-> exp, scope |-> scope, body |-> body]

StatementKind_ReturnVoid == Statement("ReturnVoid", <<>>, <<>>, <<>>)
StatementKind_Return(tipe) == Statement("Return", <<tipe>>, <<>>, <<>>)
StatementKind_Break(exp, scope) == Statement("Break", exp, scope, <<>>)
\* an expression statement whose expression is a code block
StatementKind_CodeBlock(body) == Statement("CodeBlock", <<>>, <<>>, body)
StatementKind_While(body) == Statement("While", <<Bool>>, <<>>, body)

NoTypes == <<>>     \* a type tree without named types

Checked(res, scopes) == [res |-> res, scopes |-> scopes]

\* The Break arm of typecheck_statement.
typecheck_break(stat, scopes) ==
    LET key == IF stat.scope = <<>> THEN "_" ELSE stat.scope[1]
        hits == {i \in DOMAIN scopes : scopes[i].name = key}
        tipe == IF stat.exp = <<>> THEN Tuple(<<>>) ELSE stat.exp[1]
    IN IF hits = {} THEN Checked("No valid scope to break from", scopes)
       ELSE LET i == CHOOSE h \in hits : \A j \in hits : j <= h IN
            IF scopes[i].tipe = <<>> THEN Checked(Ok, scopes)
            ELSE IF scopes[i].tipe[1] # tipe
            THEN Checked("mismatched types in break statement", scopes)
            ELSE Checked(Ok, [scopes EXCEPT ![i].tipe = <<tipe>>])

RECURSIVE typecheck_statement(_, _, _)
RECURSIVE typecheck_statements_from(_, _, _, _)

\* The loop of typecheck_statement_sequence_with_bindings from the i-th
\* statement on: the first error ends it.
typecheck_statements_from(statements, i, return_type, scopes) ==
    IF i > Len(statements) THEN Checked(Ok, scopes)
    ELSE LET tcs == typecheck_statement(statements[i], return_type, scopes) IN
         IF tcs.res # Ok THEN tcs
         ELSE typecheck_statements_from(statements, i + 1, return_type, tcs.scopes)

typecheck_statement_sequence(statements, return_type, scopes) ==
    typecheck_statements_from(statements, 1, return_type, scopes)

\* typecheck_codeblock pushes the scope "_" and checks the body; nothing
\* takes the scope off again.
typecheck_codeblock(body, return_type, scopes) ==
    typecheck_statements_from(body, 1, return_type,
                              Append(scopes, [name |-> "_", tipe |-> <<>>]))

typecheck_statement(stat, return_type, scopes) ==
    CASE stat.k = "ReturnVoid" ->
            LET a == assignable(Void, return_type, NoTypes, {}) IN
            IF a = "true" THEN Checked(Ok, scopes)
            ELSE IF a = "false"
            THEN Checked("Tried to return without type", scopes)
            ELSE Checked(a, scopes)
      [] stat.k = "Return" ->
            LET a == assignable(return_type, stat.exp[1], NoTypes, {}) IN
            IF a = "true" THEN Checked(Ok, scopes)
            ELSE IF a = "false"
            THEN Checked("return statement has wrong type", scopes)
            ELSE Checked(a, scopes)
      [] stat.k = "Break" -> typecheck_break(stat, scopes)
      [] stat.k = "CodeBlock" -> typecheck_codeblock(stat.body, return_type, scopes)
      [] stat.k = "While" -> typecheck_statement_sequence(stat.body, return_type, scopes)

\* Inputs.
SimpleStatements ==
    {StatementKind_ReturnVoid, StatementKind_Return(Uint),
     StatementKind_Break(<<>>, <<>>), StatementKind_Break(<<Uint>>, <<>>),
     StatementKind_Break(<<Bool>>, <<>>), StatementKind_Break(<<>>, <<"outer">>)}

RECURSIVE SeqsUpTo(_, _)
SeqsUpTo(S, n) ==
    IF n = 0 THEN {<<>>}
    ELSE LET shorter == SeqsUpTo(S, n - 1) IN
         shorter \cup {Append(s, x) : s \in shorter, x \in S}

Statements ==
    SimpleStatements
    \cup {StatementKind_CodeBlock(body) : body \in SeqsUpTo(SimpleStatements, MaxBlockLen)}
    \cup {StatementKind_While(body) : body \in SeqsUpTo(SimpleStatements, 1)}

ReturnTypes == {Void, Any, Every, Uint}

StmtUnset == Checked("unset", <<>>)

StmtInit ==
    /\ stmtFunc \in [ret_type : ReturnTypes, code : SeqsUpTo(Statements, MaxStmts)]
    /\ stmtResult = StmtUnset
    /\ TypesIdle /\ InlineIdle /\ TcIdle /\ LastIdle
    /\ FlowIdle /\ BinIdle /\ SymIdle /\ LiveIdle /\ ImpIdle

\* typecheck_function hands the body to typecheck_statement_sequence with an
\* empty scope stack.
TypecheckBody ==
    /\ stmtResult = StmtUnset
    /\ stmtResult' = typecheck_statement_sequence(stmtFunc.code, stmtFunc.ret_type, <<>>)
    /\ UNCHANGED <<stmtFunc, earlierVars, lastVars, flowVars, binVars, symVars, liveVars, impVars>>

StmtNext == TypecheckBody

SpecStmt == StmtInit /\ [][StmtNext]_vars

(***************************************************************************)
(* Claims about the type checking of statements.                           *)
(***************************************************************************)
StmtChecked == stmtResult # StmtUnset

\* The types of the values of the breaks written directly in a body that
\* leave the block around that body; a break without a value has the type
\* of the empty tuple.
BreakTypes(body) ==
    {IF body[i].exp = <<>> THEN Tuple(<<>>) ELSE body[i].exp[1] :
        i \in {j \in DOMAIN body : body[j].k = "Break" /\ body[j].scope = <<>>}}

\* C11: when two breaks of one code block carry values of different types,
\* or one carries a value and the other none, type checking reports an
\* error.
C11_BreakTypesUnified ==
    (StmtChecked /\ \E i \in DOMAIN stmtFunc.code :
                        /\ stmtFunc.code[i].k = "CodeBlock"
                        /\ Cardinality(BreakTypes(stmtFunc.code[i].body)) > 1)
        => stmtResult.res # Ok

\* The breaks of a body that no scope of that name encloses.
Unscoped(body, names) ==
    \E i \in DOMAIN body :
        /\ body[i].k = "Break"
        /\ (IF body[i].scope = <<>> THEN "_" ELSE body[i].scope[1]) \notin names

\* C12: a break that is not inside a scope with a matching label is
\* rejected, also when code blocks came before it.
C12_BreakNeedsScope ==
    (StmtChecked /\ \/ Unscoped(stmtFunc.code, {})
                    \/ \E i \in DOMAIN stmtFunc.code :
                          \/ /\ stmtFunc.code[i].k = "While"
                             /\ Unscoped(stmtFunc.code[i].body, {})
                          \/ /\ stmtFunc.code[i].k = "CodeBlock"
                             /\ Unscoped(stmtFunc.code[i].body, {"_"}))
        => stmtResult.res # Ok

\* C13: a function whose body is `return;` type-checks exactly when its
\* return type is Void or Any.
C13_ReturnVoidOnlyVoidOrAny ==
    (StmtChecked /\ stmtFunc.code = <<StatementKind_ReturnVoid>>)
        => (stmtResult.res = Ok <=> stmtFunc.ret_type \in {Void, Any})

(***************************************************************************)
(* Reachability analysis.  The id of a statement node is the location of   *)
(* its debug_info (0 for a statement without location); a warning is the   *)
(* sequence of the locations it covers.                                    *)
(***************************************************************************)
MaxFlowStmts == 3   \* statements of the function analysed: 0..MaxFlowStmts

Located(stat, location) == [stat EXCEPT !.id = location]
Location(stat) == IF stat.id = 0 THEN <<>> ELSE <<stat.id>>

RECURSIVE flowcheck_reachability(_)
RECURSIVE ReachabilityLoop(_, _, _)

\* The for loop of flowcheck_reachability from the i-th child on: the
\* warnings of the children, the locations collected and the number of
\* children the iterator has yielded when the loop ends.
ReachabilityLoop(children, i, warnings) ==
    IF i > Len(children)
    THEN [warnings |-> warnings, locations |-> <<>>, yielded |-> Len(children)]
    ELSE LET child == children[i] IN
         IF child.k \in {"Return", "ReturnVoid"}
         THEN [warnings |-> warnings, locations |-> Location(child), yielded |-> i]
         ELSE IF child.k = "Expression" /\ child.c[1].k \in {"If", "IfLet"}
         THEN LET e == child.c[1] IN
              ReachabilityLoop(children, i + 1,
                  warnings \o flowcheck_reachability(e.c[2])
                           \o (IF Len(e.c) = 3 THEN flowcheck_reachability(e.c[3])
                               ELSE <<>>))
         ELSE ReachabilityLoop(children, i + 1,
                               warnings \o flowcheck_reachability(child))

flowcheck_reachability(node) ==
    LET children == child_nodes(node)
        loop == ReachabilityLoop(children, 1, <<>>)
        n == Len(children)
        next == IF loop.yielded + 1 <= n /\ IsStatement(children[loop.yielded + 1])
                THEN Location(children[loop.yielded + 1]) ELSE <<>>
        last == IF loop.yielded + 2 <= n /\ IsStatement(children[n])
                THEN Location(children[n]) ELSE <<>>
        locations == loop.locations \o next \o last
    IN IF Len(locations) <= 1 THEN loop.warnings
       ELSE Append(loop.warnings, locations)

\* Inputs: statements at a location, their inner statements at the
\* locations after it.
FlowBlocks(at) ==
    {<<>>, <<Located(ReturnVoid("Auto"), at + 1)>>,
     <<Located(Let(Const, "Auto"), at + 1)>>,
     <<Located(ReturnVoid("Auto"), at + 1), Located(Let(Const, "Auto"), at + 2)>>}

FlowElseBlocks(at) ==
    {<<>>, <<Located(ReturnVoid("Auto"), at + 3)>>,
     <<Located(Let(Const, "Auto"), at + 3)>>}

FlowStatements(at) ==
    {Located(ReturnVoid("Auto"), at), Located(Return(Const, "Auto"), at),
     Located(Let(Const, "Auto"), at), Located(Expression(Const, "Auto"), at)}
    \cup {Located(Expression(If(Const, TypeCheckedCodeBlock(b, <<>>, ""), <<>>, "Auto"),
                             "Auto"), at) : b \in FlowBlocks(at)}
    \cup {Located(Expression(If(Const, TypeCheckedCodeBlock(b, <<>>, ""),
                                <<TypeCheckedCodeBlock(e, <<>>, "")>>, "Auto"),
                             "Auto"), at) :
            b \in FlowBlocks(at), e \in FlowElseBlocks(at) \ {<<>>}}
    \cup {Located(While(Const, b, "Auto"), at) :
            b \in {<<>>, <<Located(ReturnVoid("Auto"), at + 1)>>}}

RECURSIVE FlowCodes(_)
FlowCodes(n) ==
    IF n = 0 THEN {<<>>}
    ELSE {Append(code, stat) : code \in FlowCodes(n - 1), stat \in FlowStatements(10 * n)}

Flowed(accepted, done, warnings) ==
    [accepted |-> accepted, done |-> done, warnings |-> warnings]

FlowInit ==
    /\ flowFunc \in [ret_void : BOOLEAN,
                     code : UNION {FlowCodes(n) : n \in 0..MaxFlowStmts}]
    /\ flowResult = Flowed("unset", FALSE, <<>>)
    /\ TypesIdle /\ InlineIdle /\ TcIdle /\ LastIdle
    /\ StmtIdle /\ BinIdle /\ SymIdle /\ LiveIdle /\ ImpIdle

\* typecheck_function on the declaration of flowFunc: the checks it makes
\* before it looks into the statements.
TypecheckFunction ==
    /\ flowResult.accepted = "unset"
    /\ flowResult' =
         [flowResult EXCEPT !.accepted =
            typecheck_function(
                FuncDecl(1, flowFunc.ret_void,
                         [i \in 1..Len(flowFunc.code) |-> flowFunc.code[i].k],
                         TRUE, TRUE), {})]
    /\ UNCHANGED <<flowFunc, earlierVars, lastVars, stmtVars, binVars, symVars, liveVars, impVars>>

\* flowcheck_warnings.extend(flowcheck_reachability(self)) on the typed
\* function.
FlowcheckReachability ==
    /\ flowResult.accepted = Ok
    /\ ~flowResult.done
    /\ flowResult' =
         [flowResult EXCEPT
            !.done = TRUE,
            !.warnings = flowcheck_reachability(
                            FuncNode(TypeCheckedFunc(1, 0, "Auto", flowFunc.code)))]
    /\ UNCHANGED <<flowFunc, earlierVars, lastVars, stmtVars, binVars, symVars, liveVars, impVars>>

FlowNext == TypecheckFunction \/ FlowcheckReachability

SpecFlow == FlowInit /\ [][FlowNext]_vars

(***************************************************************************)
(* Claims about the reachability analysis.                                 *)
(***************************************************************************)
\* C14: a function with a declared return type whose body is a return
\* followed by a let is accepted by typecheck_function, and the reachability
\* analysis emits exactly one warning, which covers the let.
C14_DeadCodeAfterReturn ==
    (/\ flowResult.accepted # "unset"
     /\ ~flowFunc.ret_void
     /\ Len(flowFunc.code) = 2
     /\ flowFunc.code[1].k = "Return"
     /\ flowFunc.code[2].k = "Let")
        => /\ flowResult.accepted = Ok
           /\ flowResult.done =>
                /\ Len(flowResult.warnings) = 1
                /\ flowFunc.code[2].id \in Range(flowResult.warnings[1])

\* A block that returns whatever happens: one of its statements is a
\* return.
Returns(block) == \E i \in 1..Len(block.c) : block.c[i].k \in {"Return", "ReturnVoid"}

ReturnsOnBothArms(stat) ==
    /\ stat.k = "Expression"
    /\ stat.c[1].k = "If"
    /\ Len(stat.c[1].c) = 3
    /\ Returns(stat.c[1].c[2])
    /\ Returns(stat.c[1].c[3])

\* C18: the statement after an If that returns on both arms is reported as
\* unreachable.
C18_IfReturningOnBothArms ==
    flowResult.done =>
        \A i \in 1..(Len(flowFunc.code) - 1) :
            (/\ ReturnsOnBothArms(flowFunc.code[i])
             /\ \A j \in 1..(i - 1) : flowFunc.code[j].k \notin {"Return", "ReturnVoid"})
                => \E w \in Range(flowResult.warnings) :
                        flowFunc.code[i + 1].id \in Range(w)

(***************************************************************************)
(* Binary operators.  A typed expression is a record [k, op, args, val,    *)
(* tipe]: a Const with its value, a LocalVariableRef with its name as val, *)
(* a Binary with its operator and two operands, or Err with the reason as  *)
(* op.  Integers are IntWidth bits wide here; the operations of Uint256    *)
(* wrap around at that width.                                              *)
(***************************************************************************)
IntWidth == 2

Modulus == 2 ^ IntWidth

TypedExpr(k, op, args, val, tipe) ==
    [k |-> k, op |-> op, args |-> args, val |-> val, tipe |-> tipe]
ConstInt(val, tipe) == TypedExpr("Const", "", <<>>, val, tipe)
LocalVariableRef(name, tipe) == TypedExpr("LocalVariableRef", "", <<>>, name, tipe)
Binary(op, tcs1, tcs2, tipe) == TypedExpr("Binary", op, <<tcs1, tcs2>>, 0, tipe)
Err(reason) == TypedExpr("Err", reason, <<>>, 0, Void)

\* Uint256; NoValue stands for the None of the operations that may fail.
NoValue == 0 - 1
from_bool(b) == IF b THEN 1 ELSE 0
add(a, b) == (a + b) % Modulus
sub(a, b) == IF a < b THEN NoValue ELSE a - b
mul(a, b) == (a * b) % Modulus
div(a, b) == IF b = 0 THEN NoValue ELSE a \div b
modulo(a, b) == IF b = 0 THEN NoValue ELSE a % b
Signed(a) == IF a >= Modulus \div 2 THEN a - Modulus ELSE a
Unsigned(i) == i % Modulus
Abs(i) == IF i < 0 THEN 0 - i ELSE i
sdiv(a, b) ==
    IF b = 0 THEN NoValue
    ELSE LET q == Abs(Signed(a)) \div Abs(Signed(b)) IN
         Unsigned(IF (Signed(a) < 0) = (Signed(b) < 0) THEN q ELSE 0 - q)
smodulo(a, b) ==
    IF b = 0 THEN NoValue
    ELSE LET r == Abs(Signed(a)) % Abs(Signed(b)) IN
         Unsigned(IF Signed(a) < 0 THEN 0 - r ELSE r)
s_less_than(a, b) == Signed(a) < Signed(b)

RECURSIVE Bitwise(_, _, _, _)
Bitwise(f, a, b, bits) ==
    IF bits = 0 THEN 0
    ELSE LET x == a % 2
             y == b % 2
             bit == CASE f = "and" -> IF x = 1 /\ y = 1 THEN 1 ELSE 0
                      [] f = "or" -> IF x = 1 \/ y = 1 THEN 1 ELSE 0
                      [] f = "xor" -> IF x # y THEN 1 ELSE 0
         IN bit + 2 * Bitwise(f, a \div 2, b \div 2, bits - 1)
bitwise_and(a, b) == Bitwise("and", a, b, IntWidth)
bitwise_or(a, b) == Bitwise("or", a, b, IntWidth)
bitwise_xor(a, b) == Bitwise("xor", a, b, IntWidth)
shift_left(a, x) == (a * 2 ^ x) % Modulus
shift_right(a, x) == a \div (2 ^ x)

ArithmeticOps == {"Plus", "Minus", "Times"}
ComparisonOps == {"LessThan", "GreaterThan", "LessEq", "GreaterEq"}
EqualityOps == {"Equal", "NotEqual"}
BitwiseOps == {"BitwiseAnd", "BitwiseOr", "BitwiseXor"}
ShiftOps == {"ShiftLeft", "ShiftRight"}
LogicalOps == {"_LogicalAnd", "LogicalOr"}
BinaryOp ==
    ArithmeticOps \cup {"Div", "Mod"} \cup ComparisonOps \cup EqualityOps
    \cup BitwiseOps \cup ShiftOps \cup LogicalOps \cup {"Hash"}

ConstOrErr(val, tipe, reason) ==
    IF val = NoValue THEN Err(reason) ELSE ConstInt(val, tipe)

typecheck_binary_op_const(op, val1, t1, val2, t2) ==
    LET integers == (t1 = Uint /\ t2 = Uint) \/ (t1 = IntT /\ t2 = IntT)
        signed == t1 = IntT
    IN
    CASE op \in ArithmeticOps ->
            IF integers
            THEN CASE op = "Plus" -> ConstInt(add(val1, val2), t1)
                   [] op = "Minus" ->
                        ConstOrErr(sub(val1, val2), t1, "underflow on substraction")
                   [] op = "Times" -> ConstInt(mul(val1, val2), t1)
            ELSE Err("invalid argument types to binary op")
      [] op = "Div" ->
            IF integers
            THEN ConstOrErr(IF signed THEN sdiv(val1, val2) ELSE div(val1, val2),
                            t1, "divide by constant zero")
            ELSE Err("invalid argument types to divide")
      [] op = "Mod" ->
            IF integers
            THEN ConstOrErr(IF signed THEN smodulo(val1, val2) ELSE modulo(val1, val2),
                            t1, "divide by constant zero")
            ELSE Err("invalid argument types to mod")
      [] op = "LessThan" ->
            IF integers
            THEN ConstInt(from_bool(IF signed THEN s_less_than(val1, val2)
                                    ELSE val1 < val2), Bool)
            ELSE Err("invalid argument types to <")
      [] op = "GreaterThan" ->
            IF integers
            THEN ConstInt(from_bool(IF signed THEN s_less_than(val2, val1)
                                    ELSE val1 > val2), Bool)
            ELSE Err("invalid argument types to >")
      [] op = "LessEq" ->
            IF integers
            THEN ConstInt(from_bool(IF signed THEN ~s_less_than(val2, val1)
                                    ELSE val1 <= val2), Bool)
            ELSE Err("invalid argument types to <=")
      [] op = "GreaterEq" ->
            IF integers
            THEN ConstInt(from_bool(IF signed THEN ~s_less_than(val1, val2)
                                    ELSE val1 >= val2), Bool)
            ELSE Err("invalid argument types to >=")
      [] op \in EqualityOps \cup BitwiseOps ->
            IF t1 = t2
            THEN ConstInt(CASE op = "Equal" -> from_bool(val1 = val2)
                            [] op = "NotEqual" -> from_bool(val1 # val2)
                            [] op = "BitwiseAnd" -> bitwise_and(val1, val2)
                            [] op = "BitwiseOr" -> bitwise_or(val1, val2)
                            [] op = "BitwiseXor" -> bitwise_xor(val1, val2),
                          Bool)
            ELSE Err("invalid argument types to binary op")
      [] op = "_LogicalAnd" ->
            IF t1 = Bool /\ t2 = Bool
            THEN ConstInt(from_bool(val1 # 0 /\ val2 # 0), Bool)
            ELSE Err("invalid argument types to logical and")
      [] op = "LogicalOr" ->
            IF t1 = Bool /\ t2 = Bool
            THEN ConstInt(from_bool(val1 # 0 \/ val2 # 0), Bool)
            ELSE Err("invalid argument types to logical or")
      [] op \in ShiftOps ->
            IF t1 = Uint /\ t2 \in {Uint, IntT, Bytes32}
            THEN ConstInt(IF op = "ShiftLeft" THEN shift_left(val2, val1)
                          ELSE shift_right(val2, val1), t1)
            ELSE Err("must shift an integer type by a uint")
      [] op = "Hash" ->
            IF t1 = t2 /\ t1 = Bytes32
            THEN ConstInt(0, Bool)
            ELSE Err("invalid argument types to binary op")

IsIntConst(e) == e.k = "Const"

Swapped(op, tcs1, tcs2) == [op |-> op, tcs1 |-> tcs2, tcs2 |-> tcs1]

Unswapped(op, tcs1, tcs2) == [op |-> op, tcs1 |-> tcs1, tcs2 |-> tcs2]

\* The arguments as typecheck_binary_op arranges them when only tcs2 is a
\* constant.
swap_args_kept(op, tcs1, tcs2) == Unswapped(op, tcs1, tcs2)
swap_args(op, tcs1, tcs2) ==
    CASE op \in {"Plus", "Times"} \cup EqualityOps \cup BitwiseOps ->
            Swapped(op, tcs1, tcs2)
      [] op = "LessThan" -> Swapped("GreaterThan", tcs1, tcs2)
      [] op = "GreaterThan" -> Swapped("LessThan", tcs1, tcs2)
      [] op = "LessEq" -> Swapped("GreaterEq", tcs1, tcs2)
      [] op = "GreaterEq" -> Swapped("LessEq", tcs1, tcs2)
      [] OTHER -> Unswapped(op, tcs1, tcs2)

SignedOp(op) ==
    CASE op = "Div" -> "Sdiv"
      [] op = "Mod" -> "Smod"
      [] op = "LessThan" -> "SLessThan"
      [] op = "GreaterThan" -> "SGreaterThan"
      [] op = "LessEq" -> "SLessEq"
      [] op = "GreaterEq" -> "SGreaterEq"

\* The operands here have scalar types, which are their own representation.
binary_op_typed(op, tcs1, tcs2) ==
    LET subtype1 == tcs1.tipe
        subtype2 == tcs2.tipe
    IN
    CASE op \in ArithmeticOps ->
            IF subtype1 = subtype2 /\ subtype1 \in {Uint, IntT}
            THEN Binary(op, tcs1, tcs2, subtype1)
            ELSE Err("invalid argument types to binary op")
      [] op \in {"Div", "Mod"} ->
            CASE subtype1 = Uint /\ subtype2 = Uint -> Binary(op, tcs1, tcs2, Uint)
              [] subtype1 = IntT /\ subtype2 = IntT ->
                    Binary(SignedOp(op), tcs1, tcs2, IntT)
              [] OTHER -> Err("invalid argument types to divide or mod")
      [] op \in ComparisonOps ->
            CASE subtype1 = Uint /\ subtype2 = Uint -> Binary(op, tcs1, tcs2, Bool)
              [] subtype1 = IntT /\ subtype2 = IntT ->
                    Binary(SignedOp(op), tcs1, tcs2, Bool)
              [] OTHER -> Err("invalid argument types to comparison")
      [] op \in EqualityOps ->
            IF /\ subtype1 # Void
               /\ subtype2 # Void
               /\ (subtype1 = Any \/ subtype2 = Any \/ subtype1 = subtype2)
            THEN Binary(op, tcs1, tcs2, Bool)
            ELSE Err("invalid argument types to equality comparison")
      [] op \in BitwiseOps \cup ShiftOps ->
            IF subtype1 = subtype2 /\ subtype1 \in {Uint, IntT, Bytes32}
            THEN Binary(op, tcs1, tcs2, subtype1)
            ELSE Err("invalid argument types to binary bitwise operator")
      [] op \in LogicalOps ->
            IF subtype1 = Bool /\ subtype2 = Bool
            THEN Binary(op, tcs1, tcs2, Bool)
            ELSE Err("invalid argument types to binary logical operator")
      [] op = "Hash" ->
            IF subtype1 = Bytes32 /\ subtype2 = Bytes32
            THEN Binary(op, tcs1, tcs2, Bytes32)
            ELSE Err("invalid argument types to binary hash operator")

typecheck_binary_op(op, tcs1, tcs2) ==
    IF IsIntConst(tcs2) /\ IsIntConst(tcs1)
    THEN typecheck_binary_op_const(op, tcs1.val, tcs1.tipe, tcs2.val, tcs2.tipe)
    ELSE LET a == IF IsIntConst(tcs2) THEN swap_args(op, tcs1, tcs2)
                  ELSE Unswapped(op, tcs1, tcs2)
         IN binary_op_typed(a.op, a.tcs1, a.tcs2)

\* Inputs: the literals of the source language (Constant::Uint, Constant::Int
\* and Constant::Bool, as the Constant arm of the expression checker types
\* them) and local variables of the scalar types.
Literals ==
    {ConstInt(v, t) : v \in 0..(Modulus - 1), t \in {Uint, IntT}}
    \cup {ConstInt(from_bool(b), Bool) : b \in BOOLEAN}

Locals == {LocalVariableRef("x", t) : t \in {Uint, IntT, Bool, Bytes32, Any}}

Operands == Literals \cup Locals

BinUnset == TypedExpr("unset", "", <<>>, 0, Void)

BinInit ==
    /\ binExpr \in [op : BinaryOp, sub1 : Operands, sub2 : Operands]
    /\ binResult = BinUnset
    /\ TypesIdle /\ InlineIdle /\ TcIdle /\ LastIdle
    /\ StmtIdle /\ FlowIdle /\ SymIdle /\ LiveIdle /\ ImpIdle

TypecheckBinaryOp ==
    /\ binResult = BinUnset
    /\ binResult' = typecheck_binary_op(binExpr.op, binExpr.sub1, binExpr.sub2)
    /\ UNCHANGED <<binExpr, earlierVars, lastVars, stmtVars, flowVars, symVars, liveVars, impVars>>

BinNext == TypecheckBinaryOp

SpecBin == BinInit /\ [][BinNext]_vars

(***************************************************************************)
(* Claims about binary operators.                                          *)
(***************************************************************************)
CommutativeOps == {"Plus", "Times"} \cup EqualityOps \cup BitwiseOps

OneLiteral ==
    /\ binExpr.op \in CommutativeOps
    /\ IsIntConst(binExpr.sub1) # IsIntConst(binExpr.sub2)

TheLiteral == IF IsIntConst(binExpr.sub1) THEN binExpr.sub1 ELSE binExpr.sub2

TheOther == IF IsIntConst(binExpr.sub1) THEN binExpr.sub2 ELSE binExpr.sub1

EmittedBinary == binResult.k = "Binary"

Arithmetic(op, a, b) ==
    CASE op = "Plus" -> add(a, b)
      [] op = "Minus" -> (a - b) % Modulus
      [] op = "Times" -> mul(a, b)
      [] op = "BitwiseAnd" -> bitwise_and(a, b)
      [] op = "BitwiseOr" -> bitwise_or(a, b)
      [] op = "BitwiseXor" -> bitwise_xor(a, b)

TwoIntegerLiterals ==
    /\ IsIntConst(binExpr.sub1)
    /\ IsIntConst(binExpr.sub2)
    /\ binExpr.sub1.tipe = binExpr.sub2.tipe
    /\ binExpr.sub1.tipe \in {Uint, IntT}

Underflows == binExpr.op = "Minus" /\ binExpr.sub1.val < binExpr.sub2.val

\* C16: two integer literals of the same type T under an arithmetic or
\* bitwise operator fold to a Const of type T whose value is the operator
\* applied to them within T (a subtraction that underflows apart),
\* and under a comparison to a Const of type Bool.
C16_ConstantFolding ==
    (TwoIntegerLiterals /\ binResult # BinUnset /\ ~Underflows) =>
        /\ binExpr.op \in ArithmeticOps \cup BitwiseOps =>
              binResult = ConstInt(Arithmetic(binExpr.op, binExpr.sub1.val,
                                              binExpr.sub2.val),
                                   binExpr.sub1.tipe)
        /\ binExpr.op \in ComparisonOps \cup EqualityOps =>
              binResult.k = "Const" /\ binResult.tipe = Bool

(***************************************************************************)
(* Symbol tables.  A table is the sequence of its frames, the frame pushed *)
(* last first: Empty is the empty sequence, Single(sid, t, rest) and       *)
(* Multi(hm, rest) put a frame in front of rest.  A HashMap is a function  *)
(* on the set of its keys.  An Option is None or a one-element sequence.   *)
(***************************************************************************)
MaxPushes == 3

NumStrings == 2

StringId == 1..NumStrings

\* Two values are enough to tell one binding from another.
Values == 1..2

HashMaps == UNION {[keys -> Values] : keys \in SUBSET StringId}

Empty == <<>>

Single(sid, t, rest) == <<[k |-> "Single", sid |-> sid, t |-> t, hm |-> <<>>]>> \o rest

Multi(hm, rest) == <<[k |-> "Multi", sid |-> 0, t |-> 0, hm |-> hm]>> \o rest

new == Empty

push_one(self, sid, t) == Single(sid, t, self)

push_multi(self, hm) == Multi(hm, self)

RECURSIVE get_oldest(_, _)
get_oldest(self, sid) ==
    IF self = Empty THEN None
    ELSE LET frame == Head(self)
             rest == Tail(self)
             here == CASE frame.k = "Single" ->
                            IF frame.sid = sid THEN <<frame.t>> ELSE None
                      [] frame.k = "Multi" ->
                            IF sid \in DOMAIN frame.hm THEN <<frame.hm[sid]>> ELSE None
         IN IF get_oldest(rest, sid) # None THEN get_oldest(rest, sid) ELSE here

RECURSIVE get(_, _)
get(self, sid) ==
    IF self = Empty THEN None
    ELSE LET frame == Head(self)
             rest == Tail(self)
         IN CASE frame.k = "Single" ->
                    IF frame.sid = sid THEN <<frame.t>> ELSE get(rest, sid)
              [] frame.k = "Multi" ->
                    IF sid \in DOMAIN frame.hm THEN <<frame.hm[sid]>>
                    ELSE get(rest, sid)

\* CopyingSymTable keeps copies of the values where SymTable keeps references;
\* its operations are the same.
CopyingSymTable_new == Empty

CopyingSymTable_push_one(self, sid, t) == Single(sid, t, self)

CopyingSymTable_push_multi(self, hm) == Multi(hm, self)

RECURSIVE CopyingSymTable_get(_, _)
CopyingSymTable_get(self, sid) ==
    IF self = Empty THEN None
    ELSE LET frame == Head(self)
             rest == Tail(self)
         IN CASE frame.k = "Single" ->
                    IF frame.sid = sid THEN <<frame.t>>
                    ELSE CopyingSymTable_get(rest, sid)
              [] frame.k = "Multi" ->
                    IF sid \in DOMAIN frame.hm THEN <<frame.hm[sid]>>
                    ELSE CopyingSymTable_get(rest, sid)

\* symOps is the history of the pushes, the first push first.
SymInit ==
    /\ symOps = <<>>
    /\ symTable = new
    /\ copyTable = CopyingSymTable_new
    /\ TypesIdle /\ InlineIdle /\ TcIdle /\ LastIdle
    /\ StmtIdle /\ FlowIdle /\ BinIdle /\ LiveIdle /\ ImpIdle

PushOne ==
    /\ Len(symOps) < MaxPushes
    /\ \E sid \in StringId, t \in Values :
          /\ symTable' = push_one(symTable, sid, t)
          /\ copyTable' = CopyingSymTable_push_one(copyTable, sid, t)
          /\ symOps' = Append(symOps, [op |-> "push_one", binds |-> [s \in {sid} |-> t]])
    /\ UNCHANGED <<earlierVars, lastVars, stmtVars, flowVars, binVars, liveVars, impVars>>

PushMulti ==
    /\ Len(symOps) < MaxPushes
    /\ \E hm \in HashMaps :
          /\ symTable' = push_multi(symTable, hm)
          /\ copyTable' = CopyingSymTable_push_multi(copyTable, hm)
          /\ symOps' = Append(symOps, [op |-> "push_multi", binds |-> hm])
    /\ UNCHANGED <<earlierVars, lastVars, stmtVars, flowVars, binVars, liveVars, impVars>>

SymNext == PushOne \/ PushMulti

SpecSym == SymInit /\ [][SymNext]_vars

(***************************************************************************)
(* Claims about the symbol table.                                          *)
(***************************************************************************)
Binding(sid) == {i \in 1..Len(symOps) : sid \in DOMAIN symOps[i].binds}

LatestBinding(sid) ==
    IF Binding(sid) = {} THEN None
    ELSE LET i == CHOOSE i \in Binding(sid) : \A j \in Binding(sid) : j <= i
         IN <<symOps[i].binds[sid]>>

\* C17: after any sequence of push_one and push_multi, get of an identifier
\* returns the value of the binding of that identifier pushed last, and None
\* if the identifier was never bound, in both kinds of symbol table.
C17_GetLatestBinding ==
    \A sid \in StringId :
        /\ get(symTable, sid) = LatestBinding(sid)
        /\ CopyingSymTable_get(copyTable, sid) = LatestBinding(sid)

\* An identifier bound twice with different values, by a push_one and by a
\* push_multi, and another never bound.
C17_Witness ==
    /\ \E sid \in StringId, i, j \in 1..Len(symOps) :
          /\ i < j
          /\ symOps[i].op # symOps[j].op
          /\ sid \in DOMAIN symOps[i].binds
          /\ sid \in DOMAIN symOps[j].binds
          /\ symOps[i].binds[sid] # symOps[j].binds[sid]
          /\ get(symTable, sid) = <<symOps[j].binds[sid]>>
    /\ \E sid \in StringId : Binding(sid) = {} /\ get(symTable, sid) = None

(***************************************************************************)
(* Liveness.  In a LocalVariableRef, a Let with a bind pattern and an      *)
(* AssignLocal the field id is the StringId of the variable; in a DotRef   *)
(* it is the second field of the variant, which the expression checker     *)
(* fills with the slot number of the struct field.  alive, reborn, born,   *)
(* killed and rescue are the sets of the analysis (the locations of the    *)
(* maps and the list of problems are left out).                            *)
(***************************************************************************)
MaxLiveStmts == 2

MaxSlot == 1

Slots == 0..MaxSlot

LocalRef(id) == Node("LocalVariableRef", <<>>, id, "Auto", "")

DotRef(exp, slot_num) == Node("DotRef", <<exp>>, slot_num, "Auto", "")

AssignLocal(id, exp) == Node("AssignLocal", <<exp>>, id, "Auto", "")

LetBind(id, exp) == Node("Let", <<exp>>, id, "Auto", "")

Liveness(alive, reborn, born, killed, rescue) ==
    [alive |-> alive, reborn |-> reborn, born |-> born, killed |-> killed,
     rescue |-> rescue]

Changes(killed, reborn) == [killed |-> killed, reborn |-> reborn]

\* process!((child_killed, child_reborn))
process(st, child) ==
    [st EXCEPT
        !.alive = (@ \ child.killed) \cup (child.reborn \cap st.born),
        !.reborn = (@ \ child.killed) \cup (child.reborn \ st.born),
        !.killed = @ \cup child.killed]

\* extend!: the changes of one more branch of a conditional
extend(if_changes, child) ==
    Changes(if_changes.killed \cup child.killed,
            if_changes.reborn \cup child.reborn)

\* An assignment to id (AssignLocal, or a pattern that assigns).
Assigned(st, id) ==
    [st EXCEPT
        !.reborn = IF id \in st.born THEN @ ELSE @ \cup {id},
        !.rescue = IF id \notin st.alive /\ id \notin st.born /\ id \notin st.killed
                   THEN @ \cup {id} ELSE @,
        !.alive = @ \cup {id}]

\* A pattern that binds a new variable id.
Bound(st, id) ==
    [st EXCEPT
        !.rescue = IF id \notin st.alive /\ id \notin st.born /\ id \notin st.killed
                   THEN @ \cup {id} ELSE @,
        !.born = @ \cup {id},
        !.alive = @ \cup {id}]

Killed(st, id) ==
    [st EXCEPT !.killed = @ \cup {id}, !.alive = @ \ {id}, !.reborn = @ \ {id}]

SecondChance(st, ids) ==
    [st EXCEPT !.alive = @ \ (ids \ st.born), !.reborn = @ \ (ids \ st.born)]

Repeats(node) == node.k \in {"While", "Loop"}

RECURSIVE flowcheck_liveliness(_, _)
RECURSIVE FirstPass(_, _, _)
RECURSIVE LoopPass(_, _, _)

FirstPass(nodes, i, st) ==
    IF i > Len(nodes) THEN st
    ELSE LET node == nodes[i]
             expr == flowcheck_liveliness(<<node.c[1]>>, FALSE)
             after ==
                 CASE node.k = "AssignLocal" -> Assigned(process(st, expr), node.id)
                   [] node.k = "Let" -> Bound(process(st, expr), node.id)
                   [] node.k = "Break" ->
                        process(st, flowcheck_liveliness(node.c, FALSE))
                   [] node.k = "If" ->
                        LET cond == extend(Changes({}, {}), expr)
                            block == extend(cond,
                                        flowcheck_liveliness(node.c[2].c, FALSE))
                            branch == IF Len(node.c) = 3
                                      THEN extend(block,
                                              flowcheck_liveliness(node.c[3].c, FALSE))
                                      ELSE block
                        IN process(st, branch)
                   [] node.k \in {"LocalVariableRef", "DotRef"} ->
                        process(Killed(st, node.id),
                                flowcheck_liveliness(child_nodes(node), FALSE))
                   [] OTHER ->
                        process(st, flowcheck_liveliness(child_nodes(node),
                                                         Repeats(node)))
         IN FirstPass(nodes, i + 1, after)

LoopPass(nodes, i, st) ==
    IF i > Len(nodes) THEN st
    ELSE LET node == nodes[i]
             seen == IF node.k \in {"LocalVariableRef", "DotRef"}
                     THEN SecondChance(st, {node.id}) ELSE st
             child == flowcheck_liveliness(child_nodes(node), Repeats(node))
         IN LoopPass(nodes, i + 1, SecondChance(seen, child.killed))

flowcheck_liveliness(nodes, loop_pass) ==
    LET first == FirstPass(nodes, 1, Liveness({}, {}, {}, {}, {}))
        last == IF loop_pass THEN LoopPass(nodes, 1, first) ELSE first
    IN Changes(last.killed \ last.rescue, last.reborn)

\* The arguments for which flowcheck warns "declared but never used";
\* underscored is the set of the names that start with an underscore.
flowcheck(func, underscored) ==
    LET changes == flowcheck_liveliness(func.code, FALSE) IN
    {func.args[i] : i \in {j \in 1..Len(func.args) :
                             /\ func.args[j] \notin underscored
                             /\ func.args[j] \notin changes.killed}}

\* Inputs: a function of two parameters, 1 and 2, of which 2 may be a struct.
LiveExprs ==
    {Const, LocalRef(1)} \cup {DotRef(LocalRef(2), slot) : slot \in Slots}

LiveSimple ==
    {Expression(e, "Auto") : e \in LiveExprs}
    \cup {LetBind(1, Const), AssignLocal(1, Const), AssignLocal(1, LocalRef(1)),
          Return(LocalRef(1), "Auto"), ReturnVoid("Auto"),
          Break(<<LocalRef(1)>>, "", "Auto")}

LiveInner ==
    {Expression(LocalRef(1), "Auto"), AssignLocal(1, Const), LetBind(1, Const),
     Expression(DotRef(LocalRef(2), MaxSlot), "Auto")}

LiveBodies == {<<s>> : s \in LiveInner} \cup {<<s, t>> : s, t \in LiveInner}

LiveBlocks == {TypeCheckedCodeBlock(body, <<>>, "") : body \in LiveBodies}

LiveShortBlocks == {TypeCheckedCodeBlock(<<s>>, <<>>, "") : s \in LiveInner}

LiveStatements ==
    LiveSimple
    \cup {Expression(CodeBlock(b), "Auto") : b \in LiveBlocks}
    \cup {While(Const, body, "Auto") : body \in LiveBodies}
    \cup {Expression(If(Const, b, <<>>, "Auto"), "Auto") : b \in LiveShortBlocks}
    \cup {Expression(If(Const, b, <<e>>, "Auto"), "Auto") :
            b \in LiveShortBlocks, e \in LiveShortBlocks}

LiveUnset == [done |-> FALSE, unused |-> {}]

LiveInit ==
    /\ liveFunc \in [args : {<<1, 2>>}, underscored : SUBSET {1}, code : SeqsUpTo(LiveStatements, MaxLiveStmts)]
    /\ liveResult = LiveUnset
    /\ TypesIdle /\ InlineIdle /\ TcIdle /\ LastIdle
    /\ StmtIdle /\ FlowIdle /\ BinIdle /\ SymIdle /\ ImpIdle

FlowcheckLiveliness ==
    /\ ~liveResult.done
    /\ liveResult' = [done |-> TRUE,
                      unused |-> flowcheck(liveFunc, liveFunc.underscored)]
    /\ UNCHANGED <<liveFunc, earlierVars, lastVars, stmtVars, flowVars, binVars, symVars, impVars>>

LiveNext == FlowcheckLiveliness

SpecLive == LiveInit /\ [][LiveNext]_vars

(***************************************************************************)
(* Claims about liveness.  ReadsIncoming says whether an expression of a   *)
(* sequence of statements reads variable id while it may hold the value it *)
(* had before the sequence; Defines says whether id has been rebound or    *)
(* overwritten after the sequence; Overwrites says the same of the         *)
(* statements of an inner block, where a Let binds a variable of the block *)
(* only.                                                                   *)
(***************************************************************************)
RECURSIVE ReadsIncoming(_, _)
RECURSIVE Defines(_, _)
RECURSIVE Overwrites(_, _)
RECURSIVE OverwrittenBy(_, _)

OverwrittenBy(node, id) ==
    \/ node.k = "AssignLocal" /\ node.id = id
    \/ node.k \in {"Expression", "CodeBlock", "DotRef"}
          /\ \E j \in 1..Len(node.c) : OverwrittenBy(node.c[j], id)
    \/ node.k = "TypeCheckedCodeBlock" /\ Overwrites(node.c, id)
    \/ node.k = "If" /\ Len(node.c) = 3
          /\ OverwrittenBy(node.c[2], id) /\ OverwrittenBy(node.c[3], id)

Rebinds(nodes, id) == \E i \in 1..Len(nodes) : nodes[i].k = "Let" /\ nodes[i].id = id

Overwrites(nodes, id) ==
    \E i \in 1..Len(nodes) :
        /\ ~Rebinds(SubSeq(nodes, 1, i - 1), id)
        /\ OverwrittenBy(nodes[i], id)

Defines(nodes, id) ==
    Rebinds(nodes, id) \/ \E i \in 1..Len(nodes) : OverwrittenBy(nodes[i], id)

ReadsIncoming(nodes, id) ==
    \E i \in 1..Len(nodes) :
        /\ ~Defines(SubSeq(nodes, 1, i - 1), id)
        /\ LET node == nodes[i] IN
           \/ node.k = "LocalVariableRef" /\ node.id = id
           \/ node.k = "If" /\ \E j \in 1..Len(node.c) : ReadsIncoming(<<node.c[j]>>, id)
           \/ node.k # "If" /\ ReadsIncoming(node.c, id)

\* C19: a parameter gets the unused-parameter warning if and only if its name
\* does not start with an underscore and no expression of the body reads its
\* incoming value.
C19_UnusedParameterWarning ==
    liveResult.done =>
        \A i \in 1..Len(liveFunc.args) :
            LET arg == liveFunc.args[i] IN
            arg \in liveResult.unused <=>
                /\ arg \notin liveFunc.underscored
                /\ ~ReadsIncoming(liveFunc.code, arg)

\* No expression of the function reads the variable.
NeverRead(id) ==
    \A n \in NodesOf(liveFunc.code) : ~(n.k = "LocalVariableRef" /\ n.id = id)

\* C29: only a read of a binding marks it as used; an access to a field of
\* a struct marks the variables read in its receiver and no other.  So a
\* parameter that no expression reads (and whose name has no underscore in
\* front) is always reported as unused.
C29_NeverReadIsReported ==
    liveResult.done =>
        \A i \in 1..Len(liveFunc.args) :
            LET arg == liveFunc.args[i] IN
            (arg \notin liveFunc.underscored /\ NeverRead(arg)) =>
                arg \in liveResult.unused

(***************************************************************************)
(* Import usage.  Cast, Const and NewArray nodes carry their type payload  *)
(* in a further field tipe.  The imports are the set of the keys of the    *)
(* map of imports; function ids and nominal ids are keys of the same map.  *)
(***************************************************************************)
NumImports == 2

MaxImpStmts == 2

ImportIds == 1..NumImports

Typed(node, tipe) ==
    [k |-> node.k, c |-> node.c, id |-> node.id, mode |-> node.mode,
     label |-> node.label, tipe |-> tipe]

Cast(exp, tipe) == Typed(Node("Cast", <<exp>>, 0, "Auto", ""), tipe)

ConstOf(tipe) == Typed(Const, tipe)

NewArray(exp, tipe) == Typed(Node("NewArray", <<exp>>, 0, "Auto", ""), tipe)

\* Type::find_nominals, as the set of the ids of the vector it returns.
RECURSIVE find_nominals(_)
find_nominals(t) ==
    CASE t.k = "Nominal" -> {t.x[1]}
      [] t.k \in {"Array", "FixedArray", "Option"} -> find_nominals(t.a[1])
      [] t.k \in {"Tuple", "Func", "Struct", "Map"} ->
            UNION {find_nominals(t.a[i]) : i \in 1..Len(t.a)}
      [] OTHER -> {}

RECURSIVE flowcheck_imports(_, _)
flowcheck_imports(nodes, imports) ==
    IF nodes = <<>> THEN imports
    ELSE LET node == Head(nodes)
             nominals == IF node.k \in {"Cast", "Const", "NewArray"}
                         THEN find_nominals(node.tipe) ELSE {}
             pointers == IF node.k = "FuncRef" THEN {node.id} ELSE {}
             observed == imports \ (nominals \cup pointers)
         IN flowcheck_imports(Tail(nodes),
                              flowcheck_imports(child_nodes(node), observed))

\* Inputs.
ImpTypes ==
    {Uint, Nominal(1), Option(Nominal(1)), Union(<<Uint, Nominal(NumImports)>>)}

ImpExprs ==
    {FuncRef(id) : id \in ImportIds}
    \cup {ConstOf(t) : t \in ImpTypes}
    \cup {Cast(ConstOf(Uint), t) : t \in ImpTypes \ {Uint}}
    \cup {NewArray(ConstOf(Uint), Array(Nominal(1))),
          FunctionCall(FuncRef(NumImports), <<>>)}

ImpSimple ==
    {Expression(e, "Auto") : e \in ImpExprs}
    \cup {Break(<<e>>, "", "Auto") : e \in ImpExprs}

ImpStatements ==
    ImpSimple
    \cup {Expression(CodeBlock(TypeCheckedCodeBlock(<<Break(<<e>>, "", "Auto")>>,
                                                    <<>>, "")), "Auto") :
            e \in ImpExprs}

ImpFuncTypes == {Func(0, 0, <<>>, Void), Func(0, 0, <<Nominal(1)>>, Nominal(1))}

ImpInit ==
    /\ impFunc \in [tipe : ImpFuncTypes, code : SeqsUpTo(ImpStatements, MaxImpStmts), flowchecked : {FALSE}]
    /\ impImports \in SUBSET ImportIds
    /\ TypesIdle /\ InlineIdle /\ TcIdle /\ LastIdle
    /\ StmtIdle /\ FlowIdle /\ BinIdle /\ SymIdle /\ LiveIdle

\* The first lines of TypeCheckedFunc::flowcheck.
FlowcheckImports ==
    /\ ~impFunc.flowchecked
    /\ impImports' = flowcheck_imports(impFunc.code, impImports)
                        \ find_nominals(impFunc.tipe)
    /\ impFunc' = [impFunc EXCEPT !.flowchecked = TRUE]
    /\ UNCHANGED <<earlierVars, lastVars, stmtVars, flowVars, binVars, symVars, liveVars>>

ImpNext == FlowcheckImports

SpecImp == ImpInit /\ [][ImpNext]_vars

(***************************************************************************)
(* Claims about import usage.                                              *)
(***************************************************************************)
RECURSIVE NominalsIn(_)
NominalsIn(t) ==
    (IF t.k = "Nominal" THEN {t.x[1]} ELSE {})
    \cup UNION {NominalsIn(t.a[i]) : i \in 1..Len(t.a)}

RECURSIVE Referenced(_)
Referenced(nodes) ==
    UNION {(IF nodes[i].k = "FuncRef" THEN {nodes[i].id} ELSE {})
           \cup (IF nodes[i].k \in {"Cast", "Const", "NewArray"}
                 THEN NominalsIn(nodes[i].tipe) ELSE {})
           \cup Referenced(nodes[i].c) : i \in 1..Len(nodes)}

\* C20: after the import-usage analysis of a function, no import that the
\* body references through a FuncRef, or names as a nominal in the type of a
\* Cast, Const or NewArray or in the type of the function, is left in the
\* remaining imports.
C20_ReferencedImportsRemoved ==
    impFunc.flowchecked =>
        (Referenced(impFunc.code) \cup NominalsIn(impFunc.tipe)) \cap impImports = {}

(***************************************************************************)
(* The string table (stringtable.rs).  A table interns names: get returns  *)
(* the id of a name, making a fresh one on the first request, and          *)
(* name_from_id maps an id back.  Names are small integers here; a         *)
(* StringId is the record of the table's path and the number.             *)
(***************************************************************************)
NumNames == 3
MaxGets == 4

StrNames == 1..NumNames
StrPaths == {<<"main">>, <<"std", "bytearray">>}

olderVars == <<earlierVars, stmtVars, flowVars, binVars, symVars, liveVars, impVars>>
OlderIdle ==
    /\ TypesIdle /\ InlineIdle /\ TcIdle
    /\ StmtIdle /\ FlowIdle /\ BinIdle /\ SymIdle /\ LiveIdle /\ ImpIdle

StringId_new(path, id) == [path |-> path, id |-> id]

StringTable_new(path) ==
    [next_id |-> 0, table |-> [n \in {} |-> 0], by_id |-> <<>>, path |-> path]

\* The None arm of get: the next number is taken and the name entered.
StringTable_insert(st, name) ==
    LET new_id == st.next_id
        new_full_id == StringId_new(st.path, new_id)
    IN  [table |-> [st EXCEPT !.next_id = new_id + 1,
                              !.table = [n \in DOMAIN st.table \cup {name} |->
                                            IF n = name THEN new_full_id ELSE st.table[n]],
                              !.by_id = Append(st.by_id, name)],
         id |-> new_full_id]

\* A get that enters the name whether or not the table has it.
StringTable_get_again(st, name) == StringTable_insert(st, name)

\* StringTable::get: the table after the call and the id returned.
StringTable_get(st, name) ==
    IF name \in DOMAIN st.table
    THEN [table |-> st, id |-> st.table[name]]
    ELSE StringTable_insert(st, name)

get_if_exists(st, name) ==
    IF name \in DOMAIN st.table THEN <<st.table[name]>> ELSE <<>>

\* by_id is indexed from 0 in the code; an index past the end panics.
name_from_id(st, name) ==
    IF name.id + 1 \in DOMAIN st.by_id THEN st.by_id[name.id + 1] ELSE "panic"

StrInit ==
    /\ strTable \in {StringTable_new(path) : path \in StrPaths}
    /\ strCalls = <<>>
    /\ OlderIdle /\ WalkIdle /\ PureIdle /\ ModIdle /\ TreeIdle

Get ==
    /\ Len(strCalls) < MaxGets
    /\ \E name \in StrNames :
          LET r == StringTable_get(strTable, name)
          IN  /\ strTable' = r.table
              /\ strCalls' = Append(strCalls, [name |-> name, id |-> r.id])
    /\ UNCHANGED <<olderVars, walkVars, pureVars, modVars, treeVars>>

StrNext == Get

SpecStr == StrInit /\ [][StrNext]_vars

(***************************************************************************)
(* Claims about the string table.                                          *)
(***************************************************************************)
\* The names requested before call i, without repetition.
NamesBefore(i) == {strCalls[j].name : j \in 1..(i - 1)}

FirstRequest(i) == strCalls[i].name \notin NamesBefore(i)

C21_Interned ==
    /\ \A i, j \in DOMAIN strCalls :
          (strCalls[i].name = strCalls[j].name) <=> (strCalls[i].id = strCalls[j].id)
    /\ \A i \in DOMAIN strCalls :
          /\ FirstRequest(i) => strCalls[i].id.id = Cardinality(NamesBefore(i))
          /\ name_from_id(strTable, strCalls[i].id) = strCalls[i].name
          /\ get_if_exists(strTable, strCalls[i].name) = <<strCalls[i].id>>

C21_EntriesKept ==
    /\ \A n \in DOMAIN strTable.table :
          n \in DOMAIN strTable'.table /\ strTable'.table[n] = strTable.table[n]
    /\ \A k \in DOMAIN strTable.by_id :
          k \in DOMAIN strTable'.by_id /\ strTable'.by_id[k] = strTable.by_id[k]

\* C21: over any sequence of get calls the same name always has the same
\* id and distinct names have distinct ids, the ids being 0, 1, 2, ... in
\* the order of first request; no entry of the table is ever changed or
\* removed; and name_from_id of the id returned for a name is that name.
C21_StableInterning == []C21_Interned /\ [][C21_EntriesKept]_strVars

\* A name requested again after another name was entered in between.
C21_Witness ==
    \E i, j, k \in DOMAIN strCalls :
        /\ i < j /\ j < k
        /\ strCalls[i].name = strCalls[k].name
        /\ strCalls[j].name # strCalls[i].name
        /\ strCalls[k].id = strCalls[i].id
        /\ strCalls[j].id.id = 1

(***************************************************************************)
(* The walker by itself (recursive_apply and child_nodes, typecheck.rs).   *)
(* It is run over the body of a function with the observing function; the  *)
(* nodes of the tree are numbered, the root 1 and the others in the order  *)
(* they are written, so that the id of a node names it.                    *)
(***************************************************************************)
MaxWalkStmts == 2

RECURSIVE Size(_)
RECURSIVE SizeOfAll(_)
Size(n) == 1 + SizeOfAll(n.c)
SizeOfAll(c) == IF c = <<>> THEN 0 ELSE Size(Head(c)) + SizeOfAll(Tail(c))

RECURSIVE Numbered(_, _)
RECURSIVE NumberedAll(_, _)
Numbered(n, first) == [n EXCEPT !.id = first, !.c = NumberedAll(n.c, first + 1)]
NumberedAll(c, first) ==
    IF c = <<>> THEN <<>>
    ELSE <<Numbered(Head(c), first)>> \o NumberedAll(Tail(c), first + Size(Head(c)))

WalkLeaves == {Const}
WalkExprs ==
    WalkLeaves
    \cup {TupleExpr(<<Const, Try(Const)>>),
          CodeBlock(TypeCheckedCodeBlock(<<Expression(Const, "Auto")>>, <<Const>>, "")),
          If(Const, TypeCheckedCodeBlock(<<ReturnVoid("Auto")>>, <<>>, ""),
             <<TypeCheckedCodeBlock(<<>>, <<Try(Const)>>, "")>>, "Auto"),
          Loop(<<Let(TupleExpr(<<Const>>), "Auto"), Noop>>)}
WalkStatements ==
    {Noop, ReturnVoid("Auto"), Break(<<>>, "_", "Auto")}
    \cup {Return(e, "Auto") : e \in WalkExprs}
    \cup {Expression(e, "Auto") : e \in WalkExprs}
    \cup {Break(<<e>>, "_", "Auto") : e \in WalkExprs}
    \cup {While(Const, <<Expression(e, "Auto"), Noop>>, "Auto") : e \in WalkExprs}

WalkInit ==
    /\ walkRoot \in
          {Numbered(Node("Func", code, 0, "Auto", ""), 1) :
              code \in SeqsUpTo(WalkStatements, MaxWalkStmts)}
    /\ walkResult = <<>>
    /\ OlderIdle /\ StrIdle /\ PureIdle /\ ModIdle /\ TreeIdle

\* root.recursive_apply(observe, &(), &mut vec![])
Walk ==
    /\ walkResult = <<>>
    /\ walkResult' =
          <<[tree |-> recursive_apply("observe", walkRoot, <<>>, <<>>),
             mut_state |-> mut_state_after("observe", walkRoot, ChildPaths(walkRoot), 1,
                                           <<>>, <<>>)]>>
    /\ UNCHANGED <<walkRoot, olderVars, strVars, pureVars, modVars, treeVars>>

WalkNext == Walk

SpecWalk == WalkInit /\ [][WalkNext]_vars

(***************************************************************************)
(* Claims about the walker.                                                *)
(***************************************************************************)
RECURSIVE AllPaths(_)
AllPaths(n) ==
    {<<>>} \cup UNION {{<<i>> \o p : p \in AllPaths(n.c[i])} : i \in 1..Len(n.c)}

Visited(n) == "visits" \in DOMAIN n

\* Statements and expressions: every node but the blocks of statements.
IsAstNode(n) == n.k # "TypeCheckedCodeBlock"

\* The nodes on the way from below the root to above the node at path p.
Ancestors(tree, p) == [j \in 1..(Len(p) - 1) |-> At(tree, SubSeq(p, 1, j))]

IdsOf(nodes) == [j \in 1..Len(nodes) |-> nodes[j].id]

\* C25: a change of mut_state made while a node is visited is seen in the
\* subtree of that node and nowhere else: what a node is handed is what the
\* visited nodes above it pushed, in order, and nothing a sibling or a node
\* elsewhere pushed; the caller of recursive_apply has its mut_state as
\* before.
C25_MutStateScopedToSubtree ==
    walkResult # <<>> =>
        /\ walkResult[1].mut_state = <<>>
        /\ \A p \in AllPaths(walkResult[1].tree) :
              LET n == At(walkResult[1].tree, p) IN
              Visited(n) =>
                  n.seen = IdsOf(SelectSeq(Ancestors(walkResult[1].tree, p),
                                           LAMBDA a : Visited(a)))

\* Two visited nodes with different parents, both visited, under the root.
C25_Witness ==
    /\ walkResult # <<>>
    /\ \E p, q \in AllPaths(walkResult[1].tree) :
          /\ Len(p) >= 2 /\ Len(q) >= 2 /\ p[1] # q[1]
          /\ Visited(At(walkResult[1].tree, p)) /\ Visited(At(walkResult[1].tree, q))
          /\ At(walkResult[1].tree, p).seen # <<>>
          /\ At(walkResult[1].tree, q).seen # <<>>
          /\ At(walkResult[1].tree, p).seen # At(walkResult[1].tree, q).seen

\* C26: with a function that always returns true the walker applies the
\* function exactly once to every statement and expression below the root,
\* and to a node before its children: when a node is visited every
\* statement and expression above it has been visited.
C26_EveryNodeOncePreOrder ==
    walkResult # <<>> =>
        \A p \in AllPaths(walkResult[1].tree) \ {<<>>} :
            LET n == At(walkResult[1].tree, p) IN
            IsAstNode(n) =>
                /\ Visited(n)
                /\ n.visits = 1
                /\ n.seen = IdsOf(SelectSeq(Ancestors(walkResult[1].tree, p), IsAstNode))

(***************************************************************************)
(* Purity of typed nodes (is_pure, typecheck.rs).  A FuncRef carries the   *)
(* impure flag of its function type and an Asm says whether one of its     *)
(* instructions is impure (Instruction::is_pure is an input here).         *)
(***************************************************************************)
MaxPureStmts == 1

WithFlag(node, impure) ==
    [k |-> node.k, c |-> node.c, id |-> node.id, mode |-> node.mode,
     label |-> node.label, impure |-> impure]

GlobalVariableRef == Node("GlobalVariableRef", <<>>, 0, "Auto", "")
GetGas == Node("GetGas", <<>>, 0, "Auto", "")
SetGas(exp) == Node("SetGas", <<exp>>, 0, "Auto", "")
AssignGlobal(exp) == Node("AssignGlobal", <<exp>>, 0, "Auto", "")
FuncRefOf(impure) == WithFlag(FuncRef(1), impure)
AsmOf(impure, exps) == WithFlag(Asm(exps, "Auto"), impure)
AsmStatement(impure, exps) == WithFlag(Node("AsmStatement", exps, 0, "Auto", ""), impure)

RECURSIVE is_pure(_)
AllPure(nodes) == \A i \in 1..Len(nodes) : is_pure(nodes[i])

\* TypeCheckedStatement::is_pure and TypeCheckedExpr::is_pure
is_pure(n) ==
    CASE n.k \in {"Noop", "ReturnVoid"} -> TRUE
      [] n.k = "AssignGlobal" -> FALSE
      [] n.k = "AsmStatement" -> ~n.impure /\ AllPure(child_nodes(n))
      [] n.k = "FuncRef" -> ~n.impure
      [] n.k = "Asm" -> ~n.impure /\ AllPure(n.c)
      [] n.k \in {"GlobalVariableRef", "GetGas", "SetGas"} -> FALSE
      [] OTHER -> AllPure(child_nodes(n))

\* TypeCheckedFunc::is_pure
TypeCheckedFunc_is_pure(func) == AllPure(func.c)

PureLeaves == {Const, GlobalVariableRef, GetGas, FuncRefOf(FALSE), FuncRefOf(TRUE)}
PureExprs ==
    PureLeaves
    \cup {SetGas(e) : e \in PureLeaves}
    \cup {TupleExpr(<<Const, e>>) : e \in PureLeaves}
    \cup {AsmOf(impure, <<e>>) : impure \in BOOLEAN, e \in PureLeaves}
    \cup {CodeBlock(TypeCheckedCodeBlock(<<Expression(e, "Auto")>>, <<>>, "")) :
            e \in PureLeaves}
    \cup {CodeBlock(TypeCheckedCodeBlock(<<AssignGlobal(e)>>, <<Const>>, "")) :
            e \in PureLeaves}
PureStatements ==
    {Noop, ReturnVoid("Auto"), Break(<<>>, "_", "Auto")}
    \cup {Return(e, "Auto") : e \in PureExprs}
    \cup {Expression(e, "Auto") : e \in PureExprs}
    \cup {Break(<<e>>, "_", "Auto") : e \in PureExprs}
    \cup {AssignGlobal(e) : e \in PureExprs}
    \cup {While(e, <<Noop>>, "Auto") : e \in PureExprs}
    \cup {AsmStatement(impure, <<e>>) : impure \in BOOLEAN, e \in PureLeaves}

PureInit ==
    /\ pureFunc \in {Node("Func", code, 0, "Auto", "") :
                        code \in SeqsUpTo(PureStatements, MaxPureStmts)}
    /\ pureResult = <<>>
    /\ OlderIdle /\ StrIdle /\ WalkIdle /\ ModIdle /\ TreeIdle

IsPure ==
    /\ pureResult = <<>>
    /\ pureResult' = <<TypeCheckedFunc_is_pure(pureFunc)>>
    /\ UNCHANGED <<pureFunc, olderVars, strVars, walkVars, modVars, treeVars>>

PureNext == IsPure

SpecPure == PureInit /\ [][PureNext]_vars

(***************************************************************************)
(* Claims about purity.                                                    *)
(***************************************************************************)
\* An assignment to a global, a read of gas or a read of a global variable
\* somewhere in the subtree.
TouchesGlobalState(n) ==
    \E m \in NodesIn(n) : m.k \in {"AssignGlobal", "GetGas", "GlobalVariableRef"}

\* Kinds with a rule of their own besides those three: a reference to a
\* function, assembly, and setting the gas.
HasOwnRule(n) ==
    \E m \in NodesIn(n) : m.k \in {"FuncRef", "Asm", "AsmStatement", "SetGas"}

\* C27: is_pure is false for every statement and expression whose subtree
\* has an assignment to a global, a read of gas or a read of a global
\* variable in it; for a node without them (and without the kinds that have
\* a rule of their own) it is true exactly when all its children are pure.
C27_ImpureWhenTouchingGlobals ==
    pureResult # <<>> =>
        /\ TouchesGlobalState(pureFunc) => ~pureResult[1]
        /\ \A n \in NodesIn(pureFunc) \ {pureFunc} :
              IsAstNode(n) =>
                  /\ TouchesGlobalState(n) => ~is_pure(n)
                  /\ (~TouchesGlobalState(n) /\ ~HasOwnRule(n)) =>
                        (is_pure(n) <=> \A i \in 1..Len(n.c) : is_pure(n.c[i]))

(***************************************************************************)
(* The modifier `a with {[i] = v}` (ExprKind::ArrayOrMapMod in             *)
(* typecheck_expr).  The operands are given by their types; the outcome is *)
(* the kind and type of the typed node, a type error, a panic or a run     *)
(* that never ends, as for the relations on types.                         *)
(***************************************************************************)
ModOk(kind, tipe) == [st |-> "ok", kind |-> kind, tipe |-> tipe]
ModErr(reason) == [st |-> "err", kind |-> reason, tipe |-> Void]
ModStop(how) == [st |-> how, kind |-> "", tipe |-> Void]

\* Type::mismatch_string: None or the text of the first mismatch.
mismatch_string(l, r, tree) ==
    IF get_representation(l, tree).st = "diverge" THEN Diverged
    ELSE IF get_representation(l, tree).st # "ok" THEN None
    ELSE IF get_representation(r, tree).st = "diverge" THEN Diverged
    ELSE IF get_representation(r, tree).st # "ok" THEN None
    ELSE first_mismatch(l, r, tree, {})

\* Err(.. mismatch_string(..).expect("Did not find type mismatch") ..)
MismatchError(reason, l, r, tree) ==
    LET m == mismatch_string(l, r, tree) IN
    IF m = Diverged THEN ModStop("diverge")
    ELSE IF m = None THEN ModStop("panic")
    ELSE ModErr(reason)

\* What an assignable that is not "true" leads to.
NotAssignable(a, reason, l, r, tree) ==
    IF a = "false" THEN MismatchError(reason, l, r, tree) ELSE ModStop(a)

typecheck_array_or_map_mod(arr, index, val, tree) ==
    LET rep == get_representation(arr, tree) IN
    IF rep.st = "diverge" THEN ModStop("diverge")
    ELSE IF rep.st = "err" THEN ModErr("unresolved type")
    ELSE CASE rep.t.k = "Array" ->
            LET t == rep.t.a[1]
                a == assignable(t, val, tree, {}) IN
            IF a = "true"
            THEN IF index # Uint THEN ModErr("array modifier requires uint index")
                 ELSE ModOk("ArrayMod", Array(t))
            ELSE NotAssignable(a, "mismatched types in array modifier", t, val, tree)
      [] rep.t.k = "FixedArray" ->
            IF index # Uint THEN ModErr("array modifier requires uint index")
            ELSE ModOk("FixedArrayMod", rep.t)
      [] rep.t.k = "Map" ->
            LET kt == rep.t.a[1]
                vt == rep.t.a[2] IN
            IF index = kt
            THEN LET a == assignable(vt, val, tree, {}) IN
                 IF a = "true" THEN ModOk("MapMod", rep.t)
                 ELSE NotAssignable(a, "invalid value type for map modifier", vt, val, tree)
            ELSE MismatchError("invalid key type for map modifier", kt, index, tree)
      [] OTHER -> ModErr("[] modifier must operate on array or block")

ModTrees == {<<>>, <<Array(Bool)>>, <<FixedArray(Bool, 1)>>}
ModContainers ==
    {Array(Uint), Array(Any), Array(Array(Bool)), FixedArray(Uint, 1),
     FixedArray(Any, MaxFixedSize), Map(Uint, Bool), Map(Bool, Uint), Nominal(1),
     Uint, Tuple(<<Uint>>)}
ModIndices == {Uint, Bool, IntT}
ModValues == {Uint, Bool, Void, Every, Array(Bool), Nominal(1)}

ModInit ==
    /\ modArgs \in [arr : ModContainers, index : ModIndices, val : ModValues,
                    type_tree : ModTrees]
    /\ modResult = <<>>
    /\ OlderIdle /\ StrIdle /\ WalkIdle /\ PureIdle /\ TreeIdle

TypecheckModifier ==
    /\ modResult = <<>>
    /\ modResult' = <<typecheck_array_or_map_mod(modArgs.arr, modArgs.index, modArgs.val,
                                                 modArgs.type_tree)>>
    /\ UNCHANGED <<modArgs, olderVars, strVars, walkVars, pureVars, treeVars>>

ModNext == TypecheckModifier

SpecMod == ModInit /\ [][ModNext]_vars

(***************************************************************************)
(* Claims about the modifier.                                              *)
(***************************************************************************)
\* The type an element of the container has: the second of a map, the one
\* of an array.
ElementType(container) == container.a[Len(container.a)]

\* C28: a modifier of an array, a fixed array or a map type-checks only if
\* the element type of the container (the value type of a map) is
\* assignable from the type of the value, for all three kinds alike.
C28_ValueAssignableToElement ==
    (modResult # <<>> /\ modResult[1].st = "ok") =>
        assignable(ElementType(modResult[1].tipe), modArgs.val, modArgs.type_tree, {})
            = "true"

(***************************************************************************)
(* The module tree builder (create_program_tree, compile/mod.rs).  Module  *)
(* paths are numbers, 1 is ["main"]; treeGraph gives for each path the     *)
(* paths of the import statements of its source, in order, a path twice    *)
(* when two names are imported from one module.  Every file opens and      *)
(* parses.  One action is one turn of the while loop.                      *)
(***************************************************************************)
NumPaths == 3

ModulePaths == 1..NumPaths
Main == 1

\* The import statements a source may have: none, one, two of different
\* modules, or two of the same module.
ImportLists ==
    {<<>>}
    \cup {<<m>> : m \in ModulePaths}
    \cup {s \in {<<m, n>> : m \in ModulePaths, n \in ModulePaths} : s[1] <= s[2]}

\* A loop that takes every path for a new one.
never_seen(seen, name) == FALSE

\* seen_paths.contains(&name)
contains(seen, name) == name \in seen

TreeInit ==
    /\ treeGraph \in [ModulePaths -> ImportLists]
    /\ treePaths = <<Main>>
    /\ treePrograms = {}
    /\ treeSeen = {}
    /\ treeParses = <<>>
    /\ treePc = "loop"
    /\ OlderIdle /\ StrIdle /\ WalkIdle /\ PureIdle /\ ModIdle

\* paths.pop() gives a path that is in seen_paths: continue
SkipSeen ==
    /\ treePc = "loop" /\ treePaths # <<>>
    /\ contains(treeSeen, Last(treePaths))
    /\ treePaths' = Front(treePaths)
    /\ UNCHANGED <<treeGraph, treeSeen, treePrograms, treeParses, treePc>>
    /\ UNCHANGED <<olderVars, strVars, walkVars, pureVars, modVars>>

\* paths.pop() gives a new path: its source is parsed, its imports are
\* appended to paths and the module is entered in programs
LoadModule ==
    /\ treePc = "loop" /\ treePaths # <<>>
    /\ LET name == Last(treePaths) IN
       /\ ~contains(treeSeen, name)
       /\ treeSeen' = treeSeen \cup {name}
       /\ treeParses' = Append(treeParses, name)
       /\ treePaths' = Front(treePaths) \o treeGraph[name]
       /\ treePrograms' = treePrograms \cup {name}
    /\ UNCHANGED <<treeGraph, treePc>>
    /\ UNCHANGED <<olderVars, strVars, walkVars, pureVars, modVars>>

\* paths.pop() gives None: Ok((programs, import_map))
ReturnTree ==
    /\ treePc = "loop" /\ treePaths = <<>>
    /\ treePc' = "done"
    /\ UNCHANGED <<treeGraph, treePaths, treeSeen, treePrograms, treeParses>>
    /\ UNCHANGED <<olderVars, strVars, walkVars, pureVars, modVars>>

TreeNext == SkipSeen \/ LoadModule \/ ReturnTree

SpecTree == TreeInit /\ [][TreeNext]_vars

(***************************************************************************)
(* Claims about the module tree builder.                                   *)
(***************************************************************************)
RECURSIVE ImportedWithin(_, _)
ImportedWithin(set, steps) ==
    IF steps = 0 THEN set
    ELSE ImportedWithin(set \cup UNION {Range(treeGraph[m]) : m \in set}, steps - 1)

\* The module paths main imports, directly or through others, and main.
Transitive == ImportedWithin({Main}, NumPaths)

RECURSIVE ImportCount(_)
ImportCount(set) ==
    IF set = {} THEN 0
    ELSE LET m == CHOOSE m \in set : TRUE
         IN Len(treeGraph[m]) + ImportCount(set \ {m})

\* C30: the builder ends on every import graph, cyclic ones included: the
\* paths still to load and the modules loaded are bounded by the import
\* statements of the loaded modules, no module path is parsed twice, and
\* what is returned is exactly the set of the module paths that main
\* imports directly or through other modules (with main itself).
C30_LoadsTransitiveImportsOnce ==
    treePc # "idle" =>
        /\ Len(treePaths) + Len(treeParses) <= 1 + ImportCount(treeSeen)
        /\ Len(treeParses) <= NumPaths
        /\ \A i, j \in DOMAIN treeParses : treeParses[i] = treeParses[j] => i = j
        /\ treePc = "done" =>
              /\ treePrograms = Transitive
              /\ Range(treeParses) = Transitive

\* Modules that import each other, main among them, and a path met again.
C30_Witness ==
    /\ treePc = "done"
    /\ \E m \in ModulePaths \ {Main} :
          /\ m \in Range(treeGraph[Main])
          /\ Main \in Range(treeGraph[m])
    /\ Len(treeParses) = NumPaths
    /\ ImportCount(treeSeen) > NumPaths

(***************************************************************************)
(* The whole model: one of the components runs, the others idle.           *)
(***************************************************************************)
Init ==
    \/ TypesInit \/ InlineInit \/ TcInit
    \/ StmtInit \/ FlowInit \/ BinInit
    \/ SymInit \/ LiveInit \/ ImpInit
    \/ StrInit
    \/ WalkInit
    \/ PureInit
    \/ ModInit
    \/ TreeInit

Next ==
    \/ TypesNext \/ InlineNext \/ TcNext
    \/ StmtNext \/ FlowNext \/ BinNext
    \/ SymNext \/ LiveNext \/ ImpNext
    \/ StrNext
    \/ WalkNext
    \/ PureNext
    \/ ModNext
    \/ TreeNext

Spec == Init /\ [][Next]_vars

====
